---- MODULE Spec2Model ----
(***************************************************************************)
(* Streaming object-graph loader / converter of the viewer package:        *)
(*   packages/viewer/src/modules/Converter.js      (Converter)             *)
(*   packages/viewer/src/modules/ViewerObjectLoader (src/unnamed/part_002) *)
(* JavaScript is single-threaded: one job runs at a time until it awaits.  *)
(* Store round trips, timers and the fragment iteration are the            *)
(* environment and answer at any later job boundary.                       *)
(***************************************************************************)
EXTENDS Integers, Sequences, FiniteSets, TLC

VARIABLES
  store,          \* content id -> stored object (the ObjectLoader's point lookup)
  calls,          \* stand-alone dechunk / resolveReference invocations
  scen,           \* what the fragment iteration of this session yields
  tasks,          \* async invocations of the load session
  stack,          \* invocations running synchronously, innermost last
  mq,             \* microtask queue: invocations ready to resume, FIFO
  ld,             \* locals of load(): first, current, total, viewerLoads, ...
  now,            \* Date.now()
  lastAsyncPause, \* this.lastAsyncPause
  stripped,       \* nodes whose geometry fields were deleted by a converter
  added,          \* sceneManager.addObject calls, in order
  sfvCalls,       \* sceneObjects.setFilteredView calls
  sfvSeen,        \* what had been added when setFilteredView was called
  warnings,       \* load-warning events emitted
  progress,       \* load-progress events emitted, in order
  scene,          \* what the scene manager holds, and the unload() calls so far
  tokens          \* rows of the password-reset token table

resolverVars == <<store, calls>>
sessionVars == <<scen, tasks, stack, mq, ld, now, lastAsyncPause, stripped,
                 added, sfvCalls, sfvSeen, warnings, progress, scene>>
vars == <<store, calls, scen, tasks, stack, mq, ld, now, lastAsyncPause,
          stripped, added, sfvCalls, sfvSeen, warnings, progress, scene, tokens>>

(***************************************************************************)
(* Bounds of the model.                                                    *)
(***************************************************************************)
MaxLen == 3
MaxChunks == 2
MaxFrags == 3
MaxTotal == 2
MaxNow == 60
MaxUnloads == 1

(***************************************************************************)
(* Values.  An array element is a number or a reference stub               *)
(* { referencedId }.                                                       *)
(***************************************************************************)
NoId == "none"

Val(n) == [k |-> "val", id |-> NoId, v |-> n]

Stub(id) == [k |-> "stub", id |-> id, v |-> 0]

\* ref.referencedId is truthy
HasReferencedId(e) == e.id # NoId

Vals(s) == [j \in 1..Len(s) |-> Val(s[j])]

Nums(s) == [j \in 1..Len(s) |-> s[j].v]

RECURSIVE Flatten(_)
Flatten(ss) == IF ss = <<>> THEN <<>> ELSE Head(ss) \o Flatten(Tail(ss))

(***************************************************************************)
(* Graph nodes.  kind: "prim" | "undef" | "null" | "arr" | "obj".          *)
(*   ref      referencedId of a structured object (NoId when absent)       *)
(*   hasData  the object carries a payload obj.data                        *)
(*   stype    speckle_type of the payload (obj.data || obj), split at '.'  *)
(*   kids     elements of an array / fields of the payload (obj.data || obj)*)
(*   geom     the payload has vertices and faces                           *)
(*   display  the payload's displayValue || displayMesh (0 when neither)   *)
(***************************************************************************)
Node(kind, ref, hasData, stype, kids, geom, vertices, faces, display) ==
  [kind |-> kind, ref |-> ref, hasData |-> hasData, stype |-> stype, kids |-> kids,
   geom |-> geom, vertices |-> vertices, faces |-> faces, display |-> display]

Prim == Node("prim", NoId, FALSE, <<>>, <<>>, FALSE, <<>>, <<>>, 0)

Null == Node("null", NoId, FALSE, <<>>, <<>>, FALSE, <<>>, <<>>, 0)

Undef == Node("undef", NoId, FALSE, <<>>, <<>>, FALSE, <<>>, <<>>, 0)

Arr(kids) == Node("arr", NoId, FALSE, <<>>, kids, FALSE, <<>>, <<>>, 0)

RefStub(id) == Node("obj", id, FALSE, <<>>, <<>>, FALSE, <<>>, <<>>, 0)

Container(stype, kids) == Node("obj", NoId, TRUE, stype, kids, FALSE, <<>>, <<>>, 0)

Plain(stype) == Node("obj", NoId, FALSE, stype, <<>>, FALSE, <<>>, <<>>, 0)

\* An object nested in line: its fields are its own, it has no obj.data.
Inline(stype, kids) == Node("obj", NoId, FALSE, stype, kids, FALSE, <<>>, <<>>, 0)

MeshType == <<"Objects", "Geometry", "Mesh">>

BrepType == <<"Objects", "Geometry", "Brep">>

MeshObj(hasData, vertices, faces) ==
  Node("obj", NoId, hasData, MeshType, <<>>, TRUE, vertices, faces, 0)

BrepObj(display) == Node("obj", NoId, FALSE, BrepType, <<>>, FALSE, <<>>, <<>>, display)

TriVerts == Vals(<<0, 0, 0, 1, 0, 0, 0, 1, 0>>)

QuadVertsA == Vals(<<0, 0, 0, 1, 0, 0>>)

QuadVertsB == Vals(<<1, 1, 0, 0, 1, 0>>)

TwoQuadFaces == Vals(<<1, 0, 1, 2, 3, 1, 3, 2, 1, 0>>)

Heap ==
  <<
    (*  1 *) Prim,
    (*  2 *) Null,
    (*  3 *) MeshObj(FALSE, TriVerts, Vals(<<0, 0, 1, 2>>)),
    (*  4 *) MeshObj(FALSE, <<Stub("v1"), Stub("v2")>>, <<Stub("f1")>>),
    (*  5 *) MeshObj(FALSE, TriVerts, Vals(<<2, 0, 1, 2>>)),
    (*  6 *) MeshObj(FALSE, <<Stub("v1"), Stub("gone")>>, <<Stub("f1")>>),
    (*  7 *) RefStub("m4"),
    (*  8 *) RefStub("nope"),
    (*  9 *) BrepObj(10),
    (* 10 *) RefStub("m11"),
    (* 11 *) MeshObj(FALSE, TriVerts, Vals(<<0, 0, 1, 2>>)),
    (* 12 *) Arr(<<1, 7>>),
    (* 13 *) Plain(<<>>),
    (* 14 *) Arr(<<1, 1>>),
    (* 15 *) Node("obj", NoId, TRUE, MeshType, <<3>>, TRUE, TriVerts,
                  Vals(<<0, 0, 1, 2>>), 0),
    (* 16 *) Container(<<>>, <<3>>),
    (* 17 *) Container(<<"Speckle", "Core", "Models", "Collection">>, <<1, 14, 13>>),
    (* 18 *) Container(<<>>, <<12, 5>>),
    (* 19 *) Container(<<>>, <<9, 8>>),
    (* 20 *) Container(<<>>, <<6, 2, 25, 26>>),
    (* 21 *) Container(<<>>, <<2, 8, 14, 22>>),
    (* 22 *) Undef,
    (* 23 *) MeshObj(FALSE, QuadVertsA \o QuadVertsB, TwoQuadFaces),
    (* 24 *) Inline(<<>>, <<23>>),
    (* 25 *) BrepObj(0),
    (* 26 *) Node("obj", NoId, FALSE, MeshType, <<>>, FALSE, <<>>, <<>>, 0),
    (* 27 *) Container(<<>>, <<23>>),
    (* 28 *) Container(<<>>, <<24>>),
    (* 29 *) Container(<<>>, <<2, 5, 3>>),
    (* 30 *) Node("obj", NoId, TRUE, MeshType, <<>>, TRUE, TriVerts,
                  Vals(<<2, 0, 1, 2>>), 0),
    (* 31 *) Container(<<>>, <<10, 10>>),
    (* 32 *) Container(<<>>, <<10, 3>>)
  >>

NodeIds == 1..Len(Heap)

\* The objects the store holds: chunks carry a data array, the others are nodes.
ChunkRec(data) == [chunk |-> TRUE, data |-> data, obj |-> 0]

ObjRec(n) == [chunk |-> FALSE, data |-> <<>>, obj |-> n]

MainStore ==
  [id \in {"v1", "v2", "f1", "m4", "m11"} |->
     CASE id = "v1" -> ChunkRec(QuadVertsA)
       [] id = "v2" -> ChunkRec(QuadVertsB)
       [] id = "f1" -> ChunkRec(Vals(<<1, 0, 1, 2, 3>>))
       [] id = "m4" -> ObjRec(4)
       [] id = "m11" -> ObjRec(11)]

(***************************************************************************)
(* Converter.dechunk and Converter.resolveReference as resumable calls.    *)
(* st: "idle" | "wait" (suspended on objectLoader.getObject(req)) |        *)
(*     "ret" (returned acc / res) | "raise" (rejected with err).           *)
(* reqs: the ids looked up so far, in issue order; out: lookups in flight. *)
(***************************************************************************)
Call(fn, arr, node) ==
  [fn |-> fn, st |-> "idle", arr |-> arr, node |-> node, i |-> 0, acc |-> <<>>,
   req |-> NoId, err |-> "", res |-> 0, reqs |-> <<>>, out |-> 0]

DechunkCall(arr) == Call("dechunk", arr, 0)

ResolveCall(node) == Call("resolve", <<>>, node)

Lookup(c, id) == [c EXCEPT !.st = "wait", !.req = id, !.reqs = Append(@, id), !.out = @ + 1]

Return(c) == [c EXCEPT !.st = "ret", !.req = NoId]

Raise(c, err) == [c EXCEPT !.st = "raise", !.err = err, !.req = NoId]

\* objectLoader.getObject( id ): the stored object, or a failure for an id
\* the store does not hold.
Known(st, id) == id \in DOMAIN st

\* Converter.dechunk up to its first await.
DechunkStart(c) ==
  IF Len(c.arr) = 0 THEN Raise(c, "TypeError")      \* arr[0] is undefined
  ELSE IF ~HasReferencedId(c.arr[1]) THEN Return([c EXCEPT !.acc = c.arr])
  ELSE Lookup([c EXCEPT !.i = 1], c.arr[1].id)

\* Variant of the push below: the newest payload goes in front.
DechunkPushNewestFirst(acc, data) == data \o acc

\* dechunked.push( ...real.data )
DechunkPush(acc, data) == acc \o data

\* Variant of the resumption below: a chunk the store fails to return is skipped.
DechunkDropFailed(c, st) ==
  LET got == [c EXCEPT !.out = @ - 1]
      acc == IF Known(st, c.req) /\ st[c.req].chunk
             THEN DechunkPush(c.acc, st[c.req].data) ELSE c.acc
  IN  IF c.i < Len(c.arr)
      THEN Lookup([got EXCEPT !.acc = acc, !.i = c.i + 1], c.arr[c.i + 1].id)
      ELSE Return([got EXCEPT !.acc = acc])

\* Converter.dechunk from the return of getObject to the next await.
DechunkResume(c, st) ==
  LET got == [c EXCEPT !.out = @ - 1]
  IN  IF ~Known(st, c.req) THEN Raise(got, "StoreError")
      ELSE IF ~st[c.req].chunk THEN Raise(got, "TypeError")   \* real.data is not iterable
      ELSE LET acc == DechunkPush(c.acc, st[c.req].data)
           IN  IF c.i < Len(c.arr)
               THEN Lookup([got EXCEPT !.acc = acc, !.i = c.i + 1], c.arr[c.i + 1].id)
               ELSE Return([got EXCEPT !.acc = acc])

\* Variant of the start below: the lookup is made whether or not the node
\* has a referencedId.
ResolveAlwaysLookup(c) ==
  IF c.node = 0 \/ Heap[c.node].kind \in {"null", "undef"} THEN Raise(c, "TypeError")
  ELSE Lookup(c, Heap[c.node].ref)

\* Converter.resolveReference up to its await; node 0 stands for undefined.
ResolveStart(c) ==
  IF c.node = 0 \/ Heap[c.node].kind \in {"null", "undef"} THEN Raise(c, "TypeError")
  ELSE IF Heap[c.node].ref # NoId THEN Lookup(c, Heap[c.node].ref)
  ELSE Return([c EXCEPT !.res = c.node])

\* Variant of the resumption below: a failed lookup yields the stub itself.
ResolveSubstitute(c, st) ==
  LET got == [c EXCEPT !.out = @ - 1]
  IN  IF ~Known(st, c.req) THEN Return([got EXCEPT !.res = c.node])
      ELSE Return([got EXCEPT !.res = st[c.req].obj])

\* Converter.resolveReference from the return of getObject.
ResolveResume(c, st) ==
  LET got == [c EXCEPT !.out = @ - 1]
  IN  IF ~Known(st, c.req) THEN Raise(got, "StoreError")
      ELSE Return([got EXCEPT !.res = st[c.req].obj])

CallStart(c) == IF c.fn = "dechunk" THEN DechunkStart(c) ELSE ResolveStart(c)

CallResume(c, st) == IF c.fn = "dechunk" THEN DechunkResume(c, st) ELSE ResolveResume(c, st)

(***************************************************************************)
(* SpecResolver: dechunk and resolveReference on their own.  Call 1 is a   *)
(* dechunk of an array a split into fragments stored as chunks (or of a    *)
(* itself, never chunked); call 2 is another task using the same store.    *)
(***************************************************************************)
Values == {1, 2}

Arrays == UNION {[1..n -> {Val(x) : x \in Values}] : n \in 0..MaxLen}

SubSeqs(a) == {SubSeq(a, lo, hi) : lo \in 1..(Len(a) + 1), hi \in 0..Len(a)}

\* Every way to cut a into at most MaxChunks consecutive fragments.
Splits(a) == {fr \in UNION {[1..m -> SubSeqs(a)] : m \in 0..MaxChunks} : Flatten(fr) = a}

ChunkId(j) == "k" \o ToString(j)

\* chunk(a): the stub sequence of a split.
ChunkStubs(fr) == [j \in 1..Len(fr) |-> Stub(ChunkId(j))]

\* The chunks of a split as the store holds them; chunk `lost` is unknown to it.
ChunkStore(fr, lost) ==
  [id \in {ChunkId(j) : j \in (1..Len(fr)) \ {lost}} |->
     ChunkRec(fr[CHOOSE j \in 1..Len(fr) : ChunkId(j) = id])]

OtherCalls ==
  {ResolveCall(n) : n \in {2, 3, 7, 8}} \cup {DechunkCall(Heap[4].vertices)}

\* load() has these locals (part_002 lines 170-174); fop is firstObjectPromise
\* (0 for null), total is a one-element sequence, or <<>> for undefined.
LdInit ==
  [pc |-> "idle", first |-> TRUE, current |-> 0, total |-> <<0>>, viewerLoads |-> 0,
   fop |-> 0, fetched |-> 0]

\* The scene: the objects added and not removed, the unload() calls that have
\* returned, and how many objects had been added at the last of them.
SceneInit == [objs |-> <<>>, unloads |-> 0, mark |-> 0]

SessionIdle ==
  /\ scen = [root |-> 0, n |-> 0, tcc |-> <<>>]
  /\ tasks = <<>>
  /\ stack = <<>>
  /\ mq = <<>>
  /\ ld = LdInit
  /\ now = 0
  /\ lastAsyncPause = 0
  /\ stripped = {}
  /\ added = <<>>
  /\ sfvCalls = 0
  /\ sfvSeen = <<>>
  /\ warnings = 0
  /\ progress = <<>>
  /\ scene = SceneInit

InitResolver ==
  /\ \E a \in Arrays : \E fr \in Splits(a) : \E lost \in 0..Len(fr) :
       \E chunked \in BOOLEAN : \E other \in OtherCalls :
         /\ store = ChunkStore(fr, lost) @@ MainStore
         /\ calls = << [call |-> DechunkCall(IF chunked THEN ChunkStubs(fr) ELSE a),
                        orig |-> a, chunked |-> chunked],
                       [call |-> other, orig |-> <<>>, chunked |-> FALSE] >>
  /\ SessionIdle
  /\ tokens = {}

\* A caller invokes dechunk / resolveReference: it runs to its first await.
Invoke(c) ==
  /\ calls[c].call.st = "idle"
  /\ calls' = [calls EXCEPT ![c].call = CallStart(@)]
  /\ UNCHANGED <<store, sessionVars, tokens>>

\* objectLoader.getObject settles and the awaiting call resumes.
StoreReturn(c) ==
  /\ calls[c].call.st = "wait"
  /\ calls' = [calls EXCEPT ![c].call = CallResume(@, store)]
  /\ UNCHANGED <<store, sessionVars, tokens>>

NextResolver == \E c \in 1..2 : Invoke(c) \/ StoreReturn(c)

SpecResolver == InitResolver /\ [][NextResolver]_vars

(***************************************************************************)
(* The load session: ViewerObjectLoader.load driving                       *)
(* Converter.traverseAndConvert.  Task 0 is load() itself; the others are  *)
(* traverseAndConvert invocations ("trav": the first-fragment call, and    *)
(* the (async() => await traverseAndConvert(...))() started per element or *)
(* field) and invocations of load's conversion callback ("cb").            *)
(***************************************************************************)
PauseBudget == 30

ObjectUrl == "https://host/streams/s1/objects/o1"

\* Converter.getSpeckleType: the last '.'-separated segment, 'Base' without one.
GetSpeckleType(n) ==
  LET t == Heap[n].stype IN IF t = <<>> THEN "Base" ELSE t[Len(t)]

\* this[`${type}ToBufferGeometry`] exists
HasConverter(type) == type \in {"Mesh", "Brep"}

\* faces[ j ] for a 0-based j; -1 stands for undefined (a read past the end).
At(faces, j) == IF j < Len(faces) THEN faces[j + 1] ELSE -1

RECURSIVE DecodeFacesLenient(_, _, _)
\* Variant: a flag that is not 1 is read as a triangle.
DecodeFacesLenient(faces, k, indices) ==
  IF ~(k < Len(faces)) THEN [ok |-> TRUE, indices |-> indices]
  ELSE IF At(faces, k) = 1
    THEN DecodeFacesLenient(faces, k + 5, indices
           \o <<At(faces, k + 1), At(faces, k + 2), At(faces, k + 3)>>
           \o <<At(faces, k + 1), At(faces, k + 3), At(faces, k + 4)>>)
  ELSE DecodeFacesLenient(faces, k + 4, indices
           \o <<At(faces, k + 1), At(faces, k + 2), At(faces, k + 3)>>)

\* The face loop of MeshToBufferGeometry from position k.
RECURSIVE DecodeFaces(_, _, _)
DecodeFaces(faces, k, indices) ==
  IF ~(k < Len(faces)) THEN [ok |-> TRUE, indices |-> indices]
  ELSE IF At(faces, k) = 1
    THEN DecodeFaces(faces, k + 5, indices
           \o <<At(faces, k + 1), At(faces, k + 2), At(faces, k + 3)>>
           \o <<At(faces, k + 1), At(faces, k + 3), At(faces, k + 4)>>)
  ELSE IF At(faces, k) = 0
    THEN DecodeFaces(faces, k + 4, indices
           \o <<At(faces, k + 1), At(faces, k + 2), At(faces, k + 3)>>)
  ELSE [ok |-> FALSE, indices |-> indices]

RECURSIVE FaceLoopSteps(_, _)
\* How many times the body of the face loop runs from position k.
FaceLoopSteps(faces, k) ==
  IF ~(k < Len(faces)) THEN 0
  ELSE IF At(faces, k) = 1 THEN 1 + FaceLoopSteps(faces, k + 5)
  ELSE IF At(faces, k) = 0 THEN 1 + FaceLoopSteps(faces, k + 4)
  ELSE 1

NoCall == Call("none", <<>>, 0)

Task(kind, node, top) ==
  [kind |-> kind, pc |-> "start", node |-> node, top |-> top, i |-> 0, st |-> "run",
   err |-> "", parked |-> FALSE, call |-> NoCall, target |-> 0, verts |-> <<>>,
   indices |-> <<>>]

\* new ObjectWrapper( bufferGeometry, obj )
Wrapper(t, url) ==
  [meta |-> t.node, index |-> t.indices, position |-> Nums(t.verts), importedUrl |-> url]

\* The objects the iteration may yield first.
Roots == (15..21) \cup (27..32)

\* obj.totalChildrenCount of a first object: any count, or none, for the
\* first three; the others declare one child.
Totals(r) == IF r \in 15..17 THEN {<<>>} \cup {<<x>> : x \in 0..MaxTotal} ELSE {<<1>>}

\* How many fragments the iteration yields: any number for the first four
\* and for the Mesh that does not decode, one or two for the others.
Frags(r) == IF r \in (15..18) \cup {30} THEN 1..MaxFrags ELSE {1, 2}

Scenarios ==
  {[root |-> 0, n |-> 0, tcc |-> <<>>]} \cup
  UNION {{[root |-> r, n |-> n, tcc |-> c] : n \in Frags(r), c \in Totals(r)} :
           r \in Roots}

Init ==
  /\ store = MainStore
  /\ calls = <<>>
  /\ scen \in Scenarios
  /\ tasks = <<>>
  /\ stack = <<>>
  /\ mq = <<>>
  /\ ld = LdInit
  /\ now = 0
  /\ lastAsyncPause = 0
  /\ stripped = {}
  /\ added = <<>>
  /\ sfvCalls = 0
  /\ sfvSeen = <<>>
  /\ warnings = 0
  /\ progress = <<>>
  /\ scene = SceneInit
  /\ tokens = {}

fixedVars == <<store, calls, scen, tokens>>
obsVars == <<added, sfvCalls, sfvSeen, warnings, progress>>

Top == stack[Len(stack)]

Pop == SubSeq(stack, 1, Len(stack) - 1)

Running(t) == stack # <<>> /\ Top = t

\* The running invocation goes on synchronously.
Continue(t, r) ==
  /\ tasks' = [tasks EXCEPT ![t] = r]
  /\ UNCHANGED <<stack, mq>>

\* It awaits a promise the environment settles later; control returns to its caller.
Suspend(t, r) ==
  /\ tasks' = [tasks EXCEPT ![t] = [r EXCEPT !.parked = TRUE]]
  /\ stack' = Pop
  /\ mq' = mq

\* It awaits a promise that is settled already: its continuation is queued.
Tick(t, r) ==
  /\ tasks' = [tasks EXCEPT ![t] = r]
  /\ stack' = Pop
  /\ mq' = Append(mq, t)

\* Variant: the caller awaits the invocation it started inside its own frame,
\* so a throw before the first await ends the caller as well.
FinishWithCaller(t, r, st, err) ==
  IF st = "err" /\ Len(stack) >= 2 /\ stack[Len(stack) - 1] # 0
  THEN /\ tasks' = [tasks EXCEPT ![t] = [r EXCEPT !.st = st, !.err = err, !.pc = "end"],
                                 ![stack[Len(stack) - 1]] =
                                    [@ EXCEPT !.st = st, !.err = err, !.pc = "end"]]
       /\ stack' = SubSeq(stack, 1, Len(stack) - 2)
       /\ mq' = mq
  ELSE /\ tasks' = [tasks EXCEPT ![t] = [r EXCEPT !.st = st, !.err = err, !.pc = "end"]]
       /\ stack' = Pop
       /\ mq' = IF r.top /\ ld.pc = "await_first" THEN Append(mq, 0) ELSE mq

\* Variant: the promise settles without resuming whoever awaits it.
FinishSilent(t, r, st, err) ==
  /\ tasks' = [tasks EXCEPT ![t] = [r EXCEPT !.st = st, !.err = err, !.pc = "end"]]
  /\ stack' = Pop
  /\ mq' = mq

\* It returns or throws: its promise settles, and load() is woken when it is
\* awaiting this promise (firstObjectPromise).
Finish(t, r, st, err) ==
  /\ tasks' = [tasks EXCEPT ![t] = [r EXCEPT !.st = st, !.err = err, !.pc = "end"]]
  /\ stack' = Pop
  /\ mq' = IF r.top /\ ld.pc = "await_first" THEN Append(mq, 0) ELSE mq

\* Variant: the caller awaits the invocation it starts.
SpawnAwaited(t, r, child) ==
  /\ tasks' = Append([tasks EXCEPT ![t] = [r EXCEPT !.parked = TRUE]], child)
  /\ stack' = Append(stack, Len(tasks) + 1)
  /\ mq' = mq

\* It calls an async function, which runs synchronously up to its first await.
Spawn(t, r, child) ==
  /\ tasks' = Append([tasks EXCEPT ![t] = r], child)
  /\ stack' = Append(stack, Len(tasks) + 1)
  /\ mq' = mq

\* The outcome of an await on a dechunk / resolveReference call c.
Await(t, r, c, pcDone, pcWait) ==
  CASE c.st = "ret"   -> Tick(t, [r EXCEPT !.call = c, !.pc = pcDone])
    [] c.st = "raise" -> Finish(t, [r EXCEPT !.call = c], "err", c.err)
    [] c.st = "wait"  -> Suspend(t, [r EXCEPT !.call = c, !.pc = pcWait])

\* traverseAndConvert lines 26-30: primitives stop, a reference is resolved.
TravStart(t) ==
  /\ Running(t) /\ tasks[t].kind = "trav" /\ tasks[t].pc = "start"
  /\ LET r == tasks[t]
         n == Heap[r.node]
     IN  CASE n.kind \in {"prim", "undef"} -> Finish(t, r, "ok", "")
           [] n.kind = "null" -> Finish(t, r, "err", "TypeError")
           [] n.kind \in {"obj", "arr"} /\ n.ref # NoId ->
                Await(t, r, ResolveStart(ResolveCall(r.node)), "resolved", "ref_wait")
           [] OTHER -> Continue(t, [r EXCEPT !.pc = "array"])
  /\ UNCHANGED <<fixedVars, scene, ld, now, lastAsyncPause, stripped, obsVars>>

\* line 30, after the await: obj is the object looked up.
TravResolved(t) ==
  /\ Running(t) /\ tasks[t].kind = "trav" /\ tasks[t].pc \in {"resolved", "ref_wait"}
  /\ LET r == tasks[t]
         c == IF r.pc = "ref_wait" THEN ResolveResume(r.call, store) ELSE r.call
     IN  IF c.st = "raise" THEN Finish(t, [r EXCEPT !.call = c], "err", c.err)
         ELSE Continue(t, [r EXCEPT !.call = c, !.node = c.res, !.pc = "array"])
  /\ UNCHANGED <<fixedVars, scene, ld, now, lastAsyncPause, stripped, obsVars>>

\* lines 33-37: every element of an array gets its own unawaited traversal.
TravArray(t) ==
  /\ Running(t) /\ tasks[t].kind = "trav" /\ tasks[t].pc = "array"
  /\ LET r == tasks[t]
         n == Heap[r.node]
     IN  IF n.kind = "arr" /\ r.i < Len(n.kids)
         THEN Spawn(t, [r EXCEPT !.i = r.i + 1], Task("trav", n.kids[r.i + 1], FALSE))
         ELSE Continue(t, [r EXCEPT !.i = 0, !.pc = "type"])
  /\ UNCHANGED <<fixedVars, scene, ld, now, lastAsyncPause, stripped, obsVars>>

\* Variant: without vertices the converter returns nothing instead of failing,
\* and line 42 hands that to the callback.
MeshStartNothing(t, r, m) ==
  IF m \in stripped \/ ~Heap[m].geom
  THEN Tick(t, [r EXCEPT !.pc = "converted"])
  ELSE Await(t, [r EXCEPT !.target = m],
             DechunkStart(DechunkCall(Heap[m].vertices)), "mesh_verts", "mesh_vwait")

\* MeshToBufferGeometry lines 137-143, up to the await of dechunk( obj.vertices ).
MeshStart(t, r, m) ==
  IF m \in stripped \/ ~Heap[m].geom
  THEN Finish(t, r, "err", "TypeError")          \* obj.vertices is undefined
  ELSE Await(t, [r EXCEPT !.target = m],
             DechunkStart(DechunkCall(Heap[m].vertices)), "mesh_verts", "mesh_vwait")

\* lines 40-49: a registered converter is invoked, otherwise every field of
\* obj.data gets its own unawaited traversal.
TravType(t) ==
  /\ Running(t) /\ tasks[t].kind = "trav" /\ tasks[t].pc = "type"
  /\ LET r == tasks[t]
         n == Heap[r.node]
         type == GetSpeckleType(r.node)
     IN  CASE type = "Mesh" -> MeshStart(t, r, r.node)
           [] type = "Brep" ->
                Await(t, r,
                      ResolveStart(ResolveCall(IF r.node \in stripped THEN 0 ELSE n.display)),
                      "brep_mesh", "brep_wait")
           [] OTHER ->
                IF n.hasData /\ r.i < Len(n.kids)
                THEN Spawn(t, [r EXCEPT !.i = r.i + 1], Task("trav", n.kids[r.i + 1], FALSE))
                ELSE Finish(t, r, "ok", "")
  /\ UNCHANGED <<fixedVars, scene, ld, now, lastAsyncPause, stripped, obsVars>>

\* BrepToBufferGeometry line 120: the display mesh is resolved, then converted.
BrepMesh(t) ==
  /\ Running(t) /\ tasks[t].kind = "trav" /\ tasks[t].pc \in {"brep_mesh", "brep_wait"}
  /\ LET r == tasks[t]
         c == IF r.pc = "brep_wait" THEN ResolveResume(r.call, store) ELSE r.call
     IN  IF c.st = "raise" THEN Finish(t, [r EXCEPT !.call = c], "err", c.err)
         ELSE MeshStart(t, [r EXCEPT !.call = c], c.res)
  /\ UNCHANGED <<fixedVars, scene, ld, now, lastAsyncPause, stripped, obsVars>>

\* line 143 resumed: a chunk of the vertices came back.
MeshVertsChunk(t) ==
  /\ Running(t) /\ tasks[t].kind = "trav" /\ tasks[t].pc = "mesh_vwait"
  /\ Await(t, tasks[t], DechunkResume(tasks[t].call, store), "mesh_verts", "mesh_vwait")
  /\ UNCHANGED <<fixedVars, scene, ld, now, lastAsyncPause, stripped, obsVars>>

\* line 144: vertices are there, dechunk( obj.faces ).
MeshFaces(t) ==
  /\ Running(t) /\ tasks[t].kind = "trav" /\ tasks[t].pc = "mesh_verts"
  /\ LET r == [tasks[t] EXCEPT !.verts = tasks[t].call.acc]
     IN  Await(t, r, DechunkStart(DechunkCall(Heap[r.target].faces)),
               "mesh_faces", "mesh_fwait")
  /\ UNCHANGED <<fixedVars, scene, ld, now, lastAsyncPause, stripped, obsVars>>

\* line 144 resumed: a chunk of the faces came back.
MeshFacesChunk(t) ==
  /\ Running(t) /\ tasks[t].kind = "trav" /\ tasks[t].pc = "mesh_fwait"
  /\ Await(t, tasks[t], DechunkResume(tasks[t].call, store), "mesh_faces", "mesh_fwait")
  /\ UNCHANGED <<fixedVars, scene, ld, now, lastAsyncPause, stripped, obsVars>>

\* lines 146-170 (and Brep lines 122-133): the faces are decoded, the geometry
\* fields are deleted from the source object, the wrapper is returned.
MeshDecode(t) ==
  /\ Running(t) /\ tasks[t].kind = "trav" /\ tasks[t].pc = "mesh_faces"
  /\ LET r == tasks[t]
         d == DecodeFaces(Nums(r.call.acc), 0, <<>>)
     IN  IF d.ok
         THEN /\ Tick(t, [r EXCEPT !.indices = d.indices, !.pc = "converted"])
              /\ stripped' = stripped \cup {r.target, r.node}
         ELSE /\ Finish(t, r, "err", "MeshTypeNotSupported")
              /\ UNCHANGED stripped
  /\ UNCHANGED <<fixedVars, scene, ld, now, lastAsyncPause, obsVars>>

\* line 42: callback( result ); the callback runs up to its first await.
TravCallback(t) ==
  /\ Running(t) /\ tasks[t].kind = "trav" /\ tasks[t].pc = "converted"
  /\ Spawn(t, [tasks[t] EXCEPT !.pc = "return"],
           [Task("cb", tasks[t].node, FALSE) EXCEPT !.verts = tasks[t].verts,
                                                    !.indices = tasks[t].indices])
  /\ UNCHANGED <<fixedVars, scene, ld, now, lastAsyncPause, stripped, obsVars>>

\* Variant: line 43 is missing, the fields of the converted node are traversed.
TravReturnDescend(t) ==
  /\ Running(t) /\ tasks[t].kind = "trav" /\ tasks[t].pc = "return"
  /\ LET r == tasks[t]
         n == Heap[r.node]
     IN  IF n.hasData /\ r.i < Len(n.kids)
         THEN Spawn(t, [r EXCEPT !.i = r.i + 1], Task("trav", n.kids[r.i + 1], FALSE))
         ELSE Finish(t, r, "ok", "")
  /\ UNCHANGED <<fixedVars, scene, ld, now, lastAsyncPause, stripped, obsVars>>

\* line 43: return.
TravReturn(t) ==
  /\ Running(t) /\ tasks[t].kind = "trav" /\ tasks[t].pc = "return"
  /\ Finish(t, tasks[t], "ok", "")
  /\ UNCHANGED <<fixedVars, scene, ld, now, lastAsyncPause, stripped, obsVars>>

\* Variant: the test is `>` instead of `>=`.
CbPauseLate(t) ==
  /\ Running(t) /\ tasks[t].kind = "cb" /\ tasks[t].pc = "start"
  /\ IF now - lastAsyncPause > PauseBudget
     THEN /\ lastAsyncPause' = now
          /\ Suspend(t, [tasks[t] EXCEPT !.pc = "timer"])
     ELSE /\ UNCHANGED lastAsyncPause
          /\ Tick(t, [tasks[t] EXCEPT !.pc = "add"])
  /\ UNCHANGED <<fixedVars, scene, ld, now, stripped, obsVars>>

\* asyncPause (part_002 lines 155-167), called first thing by the callback.
CbPause(t) ==
  /\ Running(t) /\ tasks[t].kind = "cb" /\ tasks[t].pc = "start"
  /\ IF now - lastAsyncPause >= PauseBudget
     THEN /\ lastAsyncPause' = now
          /\ Suspend(t, [tasks[t] EXCEPT !.pc = "timer"])
     ELSE /\ UNCHANGED lastAsyncPause
          /\ Tick(t, [tasks[t] EXCEPT !.pc = "add"])
  /\ UNCHANGED <<fixedVars, scene, ld, now, stripped, obsVars>>

\* setTimeout( resolve, 0 ) fires: a macrotask, so the microtask queue is empty;
\* timers fire in the order they were set.
TimerFire(t) ==
  /\ stack = <<>> /\ mq = <<>>
  /\ tasks[t].kind = "cb" /\ tasks[t].pc = "timer"
  /\ \A u \in 1..(t - 1) : ~(tasks[u].kind = "cb" /\ tasks[u].pc = "timer")
  /\ tasks' = [tasks EXCEPT ![t].pc = "add", ![t].parked = FALSE]
  /\ mq' = Append(mq, t)
  /\ UNCHANGED <<fixedVars, scene, stack, ld, now, lastAsyncPause, stripped, obsVars>>

\* Variant: line 179 is missing, the object is added without its tag.
CbAddUntagged(t) ==
  /\ Running(t) /\ tasks[t].kind = "cb" /\ tasks[t].pc = "add"
  /\ added' = Append(added, Wrapper(tasks[t], ""))
  /\ scene' = [scene EXCEPT !.objs = Append(@, Wrapper(tasks[t], ""))]
  /\ ld' = [ld EXCEPT !.viewerLoads = @ + 1]
  /\ Finish(t, tasks[t], "ok", "")
  /\ UNCHANGED <<fixedVars, now, lastAsyncPause, stripped, sfvCalls, sfvSeen, warnings, progress>>

\* part_002 lines 179-183: tag, addObject, viewerLoads++.
CbAdd(t) ==
  /\ Running(t) /\ tasks[t].kind = "cb" /\ tasks[t].pc = "add"
  /\ added' = Append(added, Wrapper(tasks[t], ObjectUrl))
  /\ scene' = [scene EXCEPT !.objs = Append(@, Wrapper(tasks[t], ObjectUrl))]
  /\ ld' = [ld EXCEPT !.viewerLoads = @ + 1]
  /\ Finish(t, tasks[t], "ok", "")
  /\ UNCHANGED <<fixedVars, now, lastAsyncPause, stripped, sfvCalls, sfvSeen, warnings, progress>>

\* objectLoader.getObject settles for a parked invocation.
StoreRespond(t) ==
  /\ stack = <<>>
  /\ tasks[t].parked /\ tasks[t].call.st = "wait" /\ tasks[t].st = "run"
  /\ tasks' = [tasks EXCEPT ![t].parked = FALSE]
  /\ mq' = Append(mq, t)
  /\ UNCHANGED <<fixedVars, scene, stack, ld, now, lastAsyncPause, stripped, obsVars>>

\* The next microtask runs.
Dequeue ==
  /\ stack = <<>> /\ mq # <<>>
  /\ stack' = <<Head(mq)>>
  /\ mq' = Tail(mq)
  /\ UNCHANGED <<fixedVars, scene, tasks, ld, now, lastAsyncPause, stripped, obsVars>>

\* Time passes between jobs.
Elapse ==
  /\ stack = <<>>
  /\ now + (PauseBudget \div 2) <= MaxNow
  /\ now' = now + (PauseBudget \div 2)
  /\ UNCHANGED <<fixedVars, scene, tasks, stack, mq, ld, lastAsyncPause, stripped, obsVars>>

\* load() is called and runs to the first `for await` step.
LoadStart ==
  /\ ld.pc = "idle" /\ stack = <<>>
  /\ ld' = [ld EXCEPT !.pc = "iter_wait"]
  /\ UNCHANGED <<fixedVars, scene, tasks, stack, mq, now, lastAsyncPause, stripped, obsVars>>

\* The iteration delivers its next result (a fragment, or the end).
IterNext ==
  /\ ld.pc = "iter_wait" /\ stack = <<>>
  /\ ld' = [ld EXCEPT !.pc = "iter_ready"]
  /\ mq' = Append(mq, 0)
  /\ UNCHANGED <<fixedVars, scene, tasks, stack, now, lastAsyncPause, stripped, obsVars>>

\* Variant of the fraction below: current / total.
ProgressOverTotal(current, total) == IF total = <<>> THEN <<>> ELSE <<current, total[1]>>

\* current / ( total + 1 ); <<>> stands for NaN (total undefined).
Progress(current, total) == IF total = <<>> THEN <<>> ELSE <<current, total[1] + 1>>

\* lines 188-189 for a fragment after the first, then the next iteration step.
LoadCountAndEmit(l) ==
  /\ ld' = [l EXCEPT !.current = @ + 1, !.pc = "iter_wait"]
  /\ progress' = Append(progress, Progress(l.current + 1, l.total))
  /\ stack' = Pop

\* Variant: the test of `first` is missing, every fragment is traversed.
LoadFragmentEach ==
  /\ Running(0) /\ ld.pc = "iter_ready" /\ ld.fetched < scen.n
  /\ tasks' = Append(tasks, Task("trav", scen.root, TRUE))
  /\ stack' = Append(stack, Len(tasks) + 1)
  /\ ld' = [ld EXCEPT !.fetched = @ + 1, !.fop = Len(tasks) + 1, !.pc = "count"]
  /\ UNCHANGED progress
  /\ UNCHANGED <<fixedVars, scene, mq, now, lastAsyncPause, stripped, added, sfvCalls, sfvSeen, warnings>>

\* lines 175-185: a fragment arrives; the first one starts the traversal.
LoadFragment ==
  /\ Running(0) /\ ld.pc = "iter_ready" /\ ld.fetched < scen.n
  /\ IF ld.first
     THEN /\ tasks' = Append(tasks, Task("trav", scen.root, TRUE))
          /\ stack' = Append(stack, Len(tasks) + 1)
          /\ ld' = [ld EXCEPT !.fetched = @ + 1, !.fop = Len(tasks) + 1, !.pc = "count"]
          /\ UNCHANGED progress
     ELSE /\ LoadCountAndEmit([ld EXCEPT !.fetched = @ + 1])
          /\ UNCHANGED tasks
  /\ UNCHANGED <<fixedVars, scene, mq, now, lastAsyncPause, stripped, added, sfvCalls, sfvSeen, warnings>>

\* lines 185-189 for the first fragment, once traverseAndConvert has returned
\* its promise.
LoadFirstCount ==
  /\ Running(0) /\ ld.pc = "count"
  /\ LoadCountAndEmit([ld EXCEPT !.first = FALSE, !.total = scen.tcc])
  /\ UNCHANGED <<fixedVars, scene, tasks, mq, now, lastAsyncPause, stripped, added, sfvCalls, sfvSeen, warnings>>

\* line 196: sceneObjects.setFilteredView() is called and awaited.
CallSetFilteredView ==
  /\ sfvCalls' = sfvCalls + 1
  /\ sfvSeen' = added
  /\ ld' = [ld EXCEPT !.pc = "await_sfv"]
  /\ stack' = Pop
  /\ mq' = mq

\* lines 192-196: the iteration is exhausted.
LoadIterDone ==
  /\ Running(0) /\ ld.pc = "iter_ready" /\ ld.fetched = scen.n
  /\ IF ld.fop # 0
     THEN /\ ld' = [ld EXCEPT !.pc = "await_first"]
          /\ stack' = Pop
          /\ mq' = IF tasks[ld.fop].st # "run" THEN Append(mq, 0) ELSE mq
          /\ UNCHANGED <<sfvCalls, sfvSeen>>
     ELSE CallSetFilteredView
  /\ UNCHANGED <<fixedVars, scene, tasks, now, lastAsyncPause, stripped, added, warnings, progress>>

\* Variant: a rejection of firstObjectPromise is swallowed.
LoadAfterFirstSwallow ==
  /\ Running(0) /\ ld.pc = "await_first"
  /\ CallSetFilteredView
  /\ UNCHANGED <<fixedVars, scene, tasks, now, lastAsyncPause, stripped, added, warnings, progress>>

\* line 193 resumed: firstObjectPromise has settled.
LoadAfterFirst ==
  /\ Running(0) /\ ld.pc = "await_first"
  /\ IF tasks[ld.fop].st = "err"
     THEN /\ ld' = [ld EXCEPT !.pc = "rejected"]
          /\ stack' = Pop
          /\ UNCHANGED <<mq, sfvCalls, sfvSeen>>
     ELSE CallSetFilteredView
  /\ UNCHANGED <<fixedVars, scene, tasks, now, lastAsyncPause, stripped, added, warnings, progress>>

\* setFilteredView's promise settles.
SfvReturn ==
  /\ ld.pc = "await_sfv" /\ stack = <<>>
  /\ ld' = [ld EXCEPT !.pc = "sfv_ready"]
  /\ mq' = Append(mq, 0)
  /\ UNCHANGED <<fixedVars, scene, tasks, stack, now, lastAsyncPause, stripped, obsVars>>

\* Variant of the test below: current === 0.
NoFragmentSeen(l) == l.current = 0

\* line 198: viewerLoads === 0
NothingLoaded(l) == l.viewerLoads = 0

\* lines 198-201: the warning when nothing was added.
LoadFinish ==
  /\ Running(0) /\ ld.pc = "sfv_ready"
  /\ warnings' = IF NothingLoaded(ld) THEN warnings + 1 ELSE warnings
  /\ ld' = [ld EXCEPT !.pc = "done"]
  /\ stack' = Pop
  /\ UNCHANGED <<fixedVars, scene, tasks, mq, now, lastAsyncPause, stripped, added, sfvCalls, sfvSeen, progress>>

\* Variant: unload() also drops the conversion callbacks that have not added
\* their object yet.
UnloadCancelling ==
  /\ ld.pc # "idle" /\ stack = <<>> /\ scene.unloads < MaxUnloads
  /\ scene' = [objs |-> SelectSeq(scene.objs, LAMBDA w : w.importedUrl # ObjectUrl),
               unloads |-> scene.unloads + 1, mark |-> Len(added)]
  /\ tasks' = [t \in DOMAIN tasks |->
                IF tasks[t].kind = "cb" /\ tasks[t].st = "run"
                THEN [tasks[t] EXCEPT !.st = "cancelled", !.pc = "end", !.parked = FALSE]
                ELSE tasks[t]]
  /\ mq' = SelectSeq(mq, LAMBDA t : t = 0 \/ tasks'[t].st = "run")
  /\ UNCHANGED <<fixedVars, stack, ld, now, lastAsyncPause, stripped, added, sfvCalls,
                 sfvSeen, warnings, progress>>

\* unload() (part_002 lines 204-206), called between two jobs once load() has
\* been called: sceneManager.removeImportedObject( this.objectUrl ) removes
\* the objects tagged with the URL.
Unload ==
  /\ ld.pc # "idle" /\ stack = <<>> /\ scene.unloads < MaxUnloads
  /\ scene' = [objs |-> SelectSeq(scene.objs, LAMBDA w : w.importedUrl # ObjectUrl),
               unloads |-> scene.unloads + 1, mark |-> Len(added)]
  /\ UNCHANGED <<fixedVars, tasks, stack, mq, ld, now, lastAsyncPause, stripped, added,
                 sfvCalls, sfvSeen, warnings, progress>>

TaskIds == DOMAIN tasks

Next ==
  \/ LoadStart
  \/ IterNext
  \/ LoadFragment
  \/ LoadFirstCount
  \/ LoadIterDone
  \/ LoadAfterFirst
  \/ SfvReturn
  \/ LoadFinish
  \/ Dequeue
  \/ Elapse
  \/ Unload
  \/ \E t \in TaskIds : TravStart(t)
  \/ \E t \in TaskIds : TravResolved(t)
  \/ \E t \in TaskIds : TravArray(t)
  \/ \E t \in TaskIds : TravType(t)
  \/ \E t \in TaskIds : BrepMesh(t)
  \/ \E t \in TaskIds : MeshVertsChunk(t)
  \/ \E t \in TaskIds : MeshFaces(t)
  \/ \E t \in TaskIds : MeshFacesChunk(t)
  \/ \E t \in TaskIds : MeshDecode(t)
  \/ \E t \in TaskIds : TravCallback(t)
  \/ \E t \in TaskIds : TravReturn(t)
  \/ \E t \in TaskIds : CbPause(t)
  \/ \E t \in TaskIds : TimerFire(t)
  \/ \E t \in TaskIds : CbAdd(t)
  \/ \E t \in TaskIds : StoreRespond(t)

Spec == Init /\ [][Next]_vars

\* A step of the session itself: not one of time passing or of unload().
Step == Next /\ now' = now /\ scene'.unloads = scene.unloads

\* The event loop runs every job that is ready, timers fire, the store and
\* the iteration answer, and load() is called.
SpecLive == Spec /\ WF_vars(Step)

(***************************************************************************)
(* The converters called on their own: MeshToBufferGeometry and            *)
(* BrepToBufferGeometry on one object, whose arrays are not chunked.  An   *)
(* object is its set of field names, its vertex and face arrays and, for   *)
(* a Brep, the mesh that displayValue || displayMesh holds.                *)
(***************************************************************************)
MaxFaces == 3

Face(flag, v) == [flag |-> flag, v |-> v]

\* Faces a buffer is built of; the last two carry a flag that is not 0 or 1.
FaceSet ==
  {Face(0, <<0, 1, 2>>), Face(0, <<2, 1, 3>>), Face(1, <<0, 1, 2, 3>>),
   Face(1, <<3, 0, 2, 1>>), Face(2, <<0, 1, 2>>), Face(4, <<0, 1, 2, 3>>)}

FaceLists == UNION {[1..n -> FaceSet] : n \in 0..MaxFaces}

\* The face buffer: per face its flag, then its indices.
Encode(list) == Flatten([j \in 1..Len(list) |-> <<list[j].flag>> \o list[j].v])

MeshBase == {"id", "speckle_type", "units"}

MeshFieldSets == {MeshBase \cup x : x \in SUBSET {"vertices", "faces", "colors"}}

BrepBase == {"id", "speckle_type", "Loops", "Trims", "Curve2D", "Curve3D"}

BrepFieldSets ==
  {BrepBase \cup x :
     x \in SUBSET {"displayValue", "displayMesh", "Edges", "edges", "Faces", "faces",
                   "Surfaces", "Vertices", "vertices"}}

\* What getConversionFactor( obj.units ) returns for the units an object declares.
Factors == {1, 2}

ConverterObj(fields, list, display) ==
  [fields |-> fields, list |-> list, vertices |-> QuadVertsA \o QuadVertsB,
   faces |-> Vals(Encode(list)), display |-> display, factor |-> 1]

ConverterCall(fn, obj) ==
  [fn |-> fn, st |-> "idle", obj |-> obj, err |-> "", wrapper |-> <<>>, tag |-> <<>>]

MeshCalls ==
  {ConverterCall("mesh", [ConverterObj(f, l, <<>>) EXCEPT !.factor = x]) :
     f \in MeshFieldSets, l \in FaceLists, x \in Factors}

\* A face buffer whose last face is cut short: its flag stays, cut of its
\* indices are missing.
TruncatedObj(list, cut) ==
  [ConverterObj(MeshBase \cup {"vertices", "faces"}, list, <<>>) EXCEPT
     !.faces = Vals(SubSeq(Encode(list), 1, Len(Encode(list)) - cut))]

ShortLists == UNION {[1..n -> FaceSet] : n \in 1..(MaxFaces - 1)}

TruncatedCalls ==
  UNION {{ConverterCall("mesh", TruncatedObj(l, k)) : k \in 1..Len(l[Len(l)].v)} :
           l \in ShortLists}

MaxStr == 3

\* Strings are sequences of characters.
Chars == {"M", "B", "."}

Strings == UNION {[1..n -> Chars] : n \in 0..MaxStr}

\* A speckle_type field: absent (<<>>) or a string (<<s>>).
TypeFields == {<<>>} \cup {<<x>> : x \in Strings}

\* The object's own speckle_type when it has a payload (the code does not
\* read it then): absent, or a string.
OwnTypes == {<<>>, << <<"B">> >>}

\* Without a payload there is no payload speckle_type.
TypeCalls ==
  {ConverterCall("type", [hasData |-> TRUE, dataType |-> d, ownType |-> o]) :
     d \in TypeFields, o \in OwnTypes}
  \cup {ConverterCall("type", [hasData |-> FALSE, dataType |-> <<>>, ownType |-> o]) :
           o \in TypeFields}

DisplayMeshes ==
  {ConverterObj(MeshBase \cup {"vertices", "faces"}, l, <<>>) :
     l \in {<<Face(1, <<0, 1, 2, 3>>)>>, <<Face(2, <<0, 1, 2>>)>>}}

BrepCalls ==
  {ConverterCall("brep", ConverterObj(f, <<>>, <<d>>)) :
     f \in BrepFieldSets, d \in DisplayMeshes}

\* new ObjectWrapper( bufferGeometry, obj ); meta is the field names obj has.
ObjectWrapper(index, position, meta) ==
  [index |-> index, position |-> position, meta |-> meta]

\* Variant: only the vertices are deleted.
MeshStripVerticesOnly(fields) == fields \ {"vertices"}

\* lines 167-168: delete obj.vertices; delete obj.faces
MeshStrip(fields) == fields \ {"vertices", "faces"}

\* Variant: the vertices are taken as they are, whatever the factor.
MeshPositionUnscaled(vertices, conversionFactor) ==
  [values |-> vertices, mapped |-> FALSE]

\* line 161: conversionFactor === 1 ? vertices : vertices.map( v => v * conversionFactor )
MeshPosition(vertices, conversionFactor) ==
  IF conversionFactor = 1
  THEN [values |-> vertices, mapped |-> FALSE]
  ELSE [values |-> [j \in 1..Len(vertices) |-> vertices[j] * conversionFactor],
        mapped |-> TRUE]

\* The converter's outcome on obj: a wrapper, or the error it throws.
MeshResult(obj) ==
  IF ~({"vertices", "faces"} \subseteq obj.fields)
  THEN [st |-> "raise", err |-> "TypeError", wrapper |-> <<>>]
  ELSE LET vertices == DechunkStart(DechunkCall(obj.vertices))
           faces == DechunkStart(DechunkCall(obj.faces))
           d == DecodeFaces(Nums(faces.acc), 0, <<>>)
       IN  IF vertices.st = "raise"
           THEN [st |-> "raise", err |-> vertices.err, wrapper |-> <<>>]
           ELSE IF faces.st = "raise"
           THEN [st |-> "raise", err |-> faces.err, wrapper |-> <<>>]
           ELSE IF d.ok
           THEN [st |-> "ret", err |-> "",
                 wrapper |-> <<ObjectWrapper(d.indices,
                                             MeshPosition(Nums(vertices.acc), obj.factor),
                                             MeshStrip(obj.fields))>>]
           ELSE [st |-> "raise", err |-> "MeshTypeNotSupported", wrapper |-> <<>>]

\* The field names lines 122-131 delete.
BrepHeavy ==
  {"displayMesh", "displayValue", "Edges", "Faces", "Loops", "Trims", "Curve2D",
   "Curve3D", "Surfaces", "Vertices"}

\* Variant: the delete of Trims is missing.
BrepStripKeepTrims(fields) == fields \ (BrepHeavy \ {"Trims"})

\* lines 122-131: delete obj.displayMesh; ... delete obj.Vertices
BrepStrip(fields) == fields \ BrepHeavy

\* The Brep converter's outcome on obj: the display mesh converted, the wrapper
\* carrying the Brep's own fields.
BrepResult(obj) ==
  IF {"displayValue", "displayMesh"} \cap obj.fields = {}
  THEN [st |-> "raise", err |-> "TypeError", wrapper |-> <<>>]
  ELSE LET m == MeshResult(obj.display[1])
       IN  IF m.st = "raise" THEN m
           ELSE [st |-> "ret", err |-> "",
                 wrapper |-> <<ObjectWrapper(m.wrapper[1].index, m.wrapper[1].position,
                                             BrepStrip(obj.fields))>>]

BaseTag == <<"B", "a", "s", "e">>

RECURSIVE Split(_, _)
\* String.prototype.split( sep ) for a one-character separator.
Split(str, sep) ==
  IF \A j \in 1..Len(str) : str[j] # sep THEN <<str>>
  ELSE LET i == CHOOSE j \in 1..Len(str) : str[j] = sep /\ \A k \in 1..(j - 1) : str[k] # sep
       IN  <<SubSeq(str, 1, i - 1)>> \o Split(SubSeq(str, i + 1, Len(str)), sep)

Reverse(seq) == [j \in 1..Len(seq) |-> seq[Len(seq) + 1 - j]]

\* Variant: the first segment is taken.
getSpeckleTypeFirst(obj) ==
  LET field == IF obj.hasData THEN obj.dataType ELSE obj.ownType
  IN  IF field # <<>> /\ field[1] # <<>> THEN Split(field[1], ".")[1] ELSE BaseTag

\* Converter.getSpeckleType on an object and its payload; an absent or empty
\* speckle_type is falsy.
getSpeckleType(obj) ==
  LET field == IF obj.hasData THEN obj.dataType ELSE obj.ownType
  IN  IF field # <<>> /\ field[1] # <<>> THEN Reverse(Split(field[1], "."))[1] ELSE BaseTag

InitConverters ==
  /\ store = MainStore
  /\ \E c \in MeshCalls \cup TruncatedCalls \cup BrepCalls \cup TypeCalls : calls = <<c>>
  /\ SessionIdle
  /\ tokens = {}

GetSpeckleTypeCall(c) ==
  /\ calls[c].fn = "type" /\ calls[c].st = "idle"
  /\ calls' = [calls EXCEPT ![c].st = "ret", ![c].tag = getSpeckleType(calls[c].obj)]
  /\ UNCHANGED <<store, sessionVars, tokens>>

MeshToBufferGeometry(c) ==
  /\ calls[c].fn = "mesh" /\ calls[c].st = "idle"
  /\ LET r == MeshResult(calls[c].obj)
     IN  calls' = [calls EXCEPT ![c].st = r.st, ![c].err = r.err, ![c].wrapper = r.wrapper]
  /\ UNCHANGED <<store, sessionVars, tokens>>

BrepToBufferGeometry(c) ==
  /\ calls[c].fn = "brep" /\ calls[c].st = "idle"
  /\ LET r == BrepResult(calls[c].obj)
     IN  calls' = [calls EXCEPT ![c].st = r.st, ![c].err = r.err, ![c].wrapper = r.wrapper]
  /\ UNCHANGED <<store, sessionVars, tokens>>

NextConverters ==
  \/ MeshToBufferGeometry(1)
  \/ BrepToBufferGeometry(1)
  \/ GetSpeckleTypeCall(1)

SpecConverters == InitConverters /\ [][NextConverters]_vars

(***************************************************************************)
(* The constructor of ViewerObjectLoader (part_002 lines 116-153) called   *)
(* on an object URL, an optional token and what localStorage holds.  The   *)
(* URL is taken as `new URL` parsed it: an origin and a pathname, the      *)
(* pathname a string of characters.                                        *)
(***************************************************************************)
MaxSegs == 5

Streams == <<"s", "t", "r", "e", "a", "m", "s">>

Objects == <<"o", "b", "j", "e", "c", "t", "s">>

\* What the path components are drawn from.
PathTokens == {Streams, Objects, <<"m", "y">> \o Streams, <<"a">>, <<"b">>}

TokenLists == UNION {[1..n -> PathTokens] : n \in 1..MaxSegs}

\* The pathname with these components: each preceded by '/'.
Pathname(toks) == Flatten([j \in 1..Len(toks) |-> <<"/">> \o toks[j]])

\* String.prototype.indexOf, 0-based; -1 when word does not occur in str.
IndexOf(str, word) ==
  LET at == {j \in 1..(Len(str) - Len(word) + 1) : SubSeq(str, j, j + Len(word) - 1) = word}
  IN  IF at = {} THEN -1 ELSE (CHOOSE j \in at : \A k \in at : j <= k) - 1

\* localStorage: reading it throws, or it holds an AuthToken item or none.
Storages ==
  {[throws |-> TRUE, item |-> <<>>], [throws |-> FALSE, item |-> <<>>],
   [throws |-> FALSE, item |-> <<"stored">>]}

CtorCalls ==
  {[fn |-> "ctor", st |-> "idle", err |-> "",
    url |-> [origin |-> "https://host", toks |-> toks, pathname |-> Pathname(toks)],
    authToken |-> a, storage |-> ls,
    token |-> <<>>, warned |-> FALSE, serverUrl |-> "", streamId |-> <<>>,
    objectId |-> <<>>, loader |-> FALSE] :
     toks \in TokenLists, a \in {<<>>, <<"given">>}, ls \in Storages}

\* Variant: the stored token is preferred to the argument.
ResolveTokenStoredFirst(authToken, storage) ==
  IF storage.throws THEN <<>>
  ELSE IF storage.item # <<>> THEN storage.item ELSE authToken

\* lines 119-124: authToken || localStorage.getItem( 'AuthToken' ) inside a
\* try whose catch ignores the error; null (<<>>) when that throws.
ResolveToken(authToken, storage) ==
  IF authToken # <<>> THEN authToken
  ELSE IF storage.throws THEN <<>>
  ELSE storage.item

InitConstructor ==
  /\ store = MainStore
  /\ \E c \in CtorCalls : calls = <<c>>
  /\ SessionIdle
  /\ tokens = {}

\* new ViewerObjectLoader( parent, objectUrl, authToken )
Constructor(c) ==
  /\ calls[c].fn = "ctor" /\ calls[c].st = "idle"
  /\ LET r == calls[c]
         token == ResolveToken(r.authToken, r.storage)
         segments == Split(r.url.pathname, "/")
         set == [r EXCEPT !.token = token, !.warned = (token = <<>>)]
     IN  IF \/ Len(segments) < 5
            \/ IndexOf(r.url.pathname, Streams) = -1
            \/ IndexOf(r.url.pathname, Objects) = -1
         THEN calls' = [calls EXCEPT ![c] =
                [set EXCEPT !.st = "raise", !.err = "Unexpected object url format."]]
         ELSE calls' = [calls EXCEPT ![c] =
                [set EXCEPT !.st = "ret", !.serverUrl = r.url.origin,
                            !.streamId = segments[3], !.objectId = segments[5],
                            !.loader = TRUE]]
  /\ UNCHANGED <<store, sessionVars, tokens>>

NextConstructor == Constructor(1)

SpecConstructor == InitConstructor /\ [][NextConstructor]_vars

(***************************************************************************)
(* Comment creation (packages/server/modules/auth/rest/index.js lines      *)
(* 187-260).  The database is what the call can see of it: the comment     *)
(* row it inserted, the links it inserted, the viewed marker, the Created  *)
(* events.  Every awaited dependency can succeed or fail.                  *)
(***************************************************************************)
MaxRes == 2

\* input.resources: resource types, "null" for an empty entry, "other" for a
\* type the check does not know.
ResourceKinds == {"stream", "commit", "object", "comment", "null", "other"}

ResourceLists == UNION {[1..n -> ResourceKinds] : n \in 0..MaxRes}

\* streamOk: the stream resource's id is input.streamId.
CommentCalls ==
  {[fn |-> "createComment", st |-> "idle", pc |-> "start", err |-> "", cause |-> "",
    resources |-> rs, streamOk |-> m, i |-> 0, row |-> FALSE, links |-> <<>>,
    deleted |-> "no", viewed |-> FALSE, events |-> 0] :
     rs \in ResourceLists, m \in BOOLEAN}

Count(rs, kind) == Cardinality({j \in 1..Len(rs) : rs[j] = kind})

\* lines 198-211: the checks before anything is written; "" when they pass.
InputError(r) ==
  IF Len(r.resources) < 1 THEN "NoResource"
  ELSE IF Count(r.resources, "comment") > 0 THEN "UseReplyMutation"
  ELSE IF Count(r.resources, "stream") > 1 THEN "MultipleStreams"
  ELSE IF Count(r.resources, "stream") = 1 /\ ~r.streamOk THEN "StreamMismatch"
  ELSE ""

\* resourceCheck on one resource (lines 125-171): the errors it can end with,
\* "" for none.  A commit or an object is looked up and may be missing.
ResourceCheckOutcomes(kind) ==
  CASE kind = "stream" -> {""}
    [] kind \in {"commit", "object"} -> {"", "NotFound"}
    [] kind = "comment" -> {"", "NotFound"}
    [] kind = "null" -> {"TypeError"}
    [] OTHER -> {"NotSupported"}

\* streamResourceCheck (lines 173-182): Promise.all over the resources
\* rejects with the error of a check that failed.
StreamCheckOutcomes(rs) ==
  LET errs == UNION {ResourceCheckOutcomes(rs[j]) \ {""} : j \in 1..Len(rs)}
  IN  errs \cup (IF \A j \in 1..Len(rs) : "" \in ResourceCheckOutcomes(rs[j])
                 THEN {""} ELSE {})

Throw(c, r, err) == calls' = [calls EXCEPT ![c] = [r EXCEPT !.st = "raise", !.err = err]]

InitComment ==
  /\ store = MainStore
  /\ \E c \in CommentCalls : calls = <<c>>
  /\ SessionIdle
  /\ tokens = {}

\* lines 198-214: the input checks, then validateInputAttachments.
CreateCommentStart(c) ==
  /\ calls[c].fn = "createComment" /\ calls[c].st = "idle"
  /\ LET r == calls[c] IN
       IF InputError(r) # "" THEN Throw(c, r, InputError(r))
       ELSE \E ok \in BOOLEAN :
              IF ok THEN calls' = [calls EXCEPT ![c] = [r EXCEPT !.st = "run", !.pc = "insert"]]
              ELSE Throw(c, r, "BadAttachments")
  /\ UNCHANGED <<store, sessionVars, tokens>>

\* line 227: await insertComment( comment )
InsertComment(c) ==
  /\ calls[c].fn = "createComment" /\ calls[c].st = "run" /\ calls[c].pc = "insert"
  /\ \E ok \in BOOLEAN :
       IF ok THEN calls' = [calls EXCEPT ![c].row = TRUE, ![c].pc = "check"]
       ELSE Throw(c, calls[c], "InsertFailed")
  /\ UNCHANGED <<store, sessionVars, tokens>>

\* lines 229-233: await streamResourceCheck( ... ) inside the try.
StreamResourceCheck(c) ==
  /\ calls[c].fn = "createComment" /\ calls[c].st = "run" /\ calls[c].pc = "check"
  /\ \E e \in StreamCheckOutcomes(calls[c].resources) :
       IF e = "" THEN calls' = [calls EXCEPT ![c].pc = "links"]
       ELSE calls' = [calls EXCEPT ![c].pc = "rollback", ![c].cause = e]
  /\ UNCHANGED <<store, sessionVars, tokens>>

\* lines 234-248: one pass of the loop over input.resources.
InsertCommentLinks(c) ==
  /\ calls[c].fn = "createComment" /\ calls[c].st = "run" /\ calls[c].pc = "links"
  /\ LET r == calls[c] IN
       IF r.i = Len(r.resources) THEN calls' = [calls EXCEPT ![c].pc = "view"]
       ELSE IF r.resources[r.i + 1] = "null" THEN calls' = [calls EXCEPT ![c].i = r.i + 1]
       ELSE \E ok \in BOOLEAN :
              IF ok THEN calls' = [calls EXCEPT ![c].i = r.i + 1,
                                               ![c].links = Append(r.links, r.resources[r.i + 1])]
              ELSE calls' = [calls EXCEPT ![c].pc = "rollback", ![c].cause = "LinkInsertFailed"]
  /\ UNCHANGED <<store, sessionVars, tokens>>

\* Variant: the catch block logs the error and goes on.
RollbackSwallow(c) ==
  /\ calls[c].fn = "createComment" /\ calls[c].st = "run" /\ calls[c].pc = "rollback"
  /\ calls' = [calls EXCEPT ![c].pc = "view"]
  /\ UNCHANGED <<store, sessionVars, tokens>>

\* lines 249-252: catch ( e ) { await deleteComment( ... ); throw e }
Rollback(c) ==
  /\ calls[c].fn = "createComment" /\ calls[c].st = "run" /\ calls[c].pc = "rollback"
  /\ \E ok \in BOOLEAN :
       IF ok THEN Throw(c, [calls[c] EXCEPT !.row = FALSE, !.deleted = "yes"], calls[c].cause)
       ELSE Throw(c, [calls[c] EXCEPT !.deleted = "failed"], "DeleteFailed")
  /\ UNCHANGED <<store, sessionVars, tokens>>

\* line 253: await viewComment( ... )
ViewComment(c) ==
  /\ calls[c].fn = "createComment" /\ calls[c].st = "run" /\ calls[c].pc = "view"
  /\ \E ok \in BOOLEAN :
       IF ok THEN calls' = [calls EXCEPT ![c].viewed = TRUE, ![c].pc = "emit"]
       ELSE Throw(c, calls[c], "ViewFailed")
  /\ UNCHANGED <<store, sessionVars, tokens>>

\* lines 255-259: the Created event, then return newComment.
EmitCreated(c) ==
  /\ calls[c].fn = "createComment" /\ calls[c].st = "run" /\ calls[c].pc = "emit"
  /\ \E ok \in BOOLEAN :
       IF ok THEN calls' = [calls EXCEPT ![c].events = @ + 1, ![c].st = "ret"]
       ELSE Throw(c, [calls[c] EXCEPT !.events = @ + 1], "ListenerFailed")
  /\ UNCHANGED <<store, sessionVars, tokens>>

NextComment ==
  \/ CreateCommentStart(1)
  \/ InsertComment(1)
  \/ StreamResourceCheck(1)
  \/ InsertCommentLinks(1)
  \/ Rollback(1)
  \/ ViewComment(1)
  \/ EmitCreated(1)

SpecComment == InitComment /\ [][NextComment]_vars

(***************************************************************************)
(* Password-reset tokens (packages/server/modules/pwdreset/repositories/   *)
(* index.ts lines 51-77): createToken calls running side by side on one    *)
(* table.  Each awaited query is one step of the database and can fail.    *)
(***************************************************************************)
MaxCalls == 2

\* The e-mail addresses createToken is called with; "" is the empty string.
Emails == {"", "a", "b"}

TokenCall(email) == [fn |-> "createToken", st |-> "idle", pc |-> "start", err |-> "",
                     email |-> email, id |-> 0]

TokenCallLists == UNION {[1..n -> {TokenCall(e) : e \in Emails}] : n \in 1..MaxCalls}

InitTokens ==
  /\ store = MainStore
  /\ calls \in TokenCallLists
  /\ SessionIdle
  /\ tokens = {}

\* line 64: the empty e-mail is refused; line 66 calls deleteTokens.
CreateTokenStart(c) ==
  /\ calls[c].fn = "createToken" /\ calls[c].st = "idle"
  /\ IF calls[c].email = ""
     THEN calls' = [calls EXCEPT ![c].st = "raise", ![c].err = "InvalidArgumentError"]
     ELSE calls' = [calls EXCEPT ![c].st = "run", ![c].pc = "delete"]
  /\ UNCHANGED <<store, sessionVars, tokens>>

\* deleteTokens (lines 54-58): the rows with this e-mail are deleted.
DeleteTokens(c) ==
  /\ calls[c].fn = "createToken" /\ calls[c].st = "run" /\ calls[c].pc = "delete"
  /\ \E ok \in BOOLEAN :
       IF ok
       THEN /\ tokens' = {r \in tokens : r.email # calls[c].email}
            /\ calls' = [calls EXCEPT ![c].pc = "insert"]
       ELSE /\ UNCHANGED tokens
            /\ calls' = [calls EXCEPT ![c].st = "raise", ![c].err = "DeleteFailed"]
  /\ UNCHANGED <<store, sessionVars>>

\* lines 68-76: a row with a fresh random id is inserted and returned.
InsertToken(c) ==
  /\ calls[c].fn = "createToken" /\ calls[c].st = "run" /\ calls[c].pc = "insert"
  /\ \E ok \in BOOLEAN :
       IF ok
       THEN /\ tokens' = tokens \cup {[id |-> c, email |-> calls[c].email]}
            /\ calls' = [calls EXCEPT ![c].st = "ret", ![c].id = c]
       ELSE /\ UNCHANGED tokens
            /\ calls' = [calls EXCEPT ![c].st = "raise", ![c].err = "InsertFailed"]
  /\ UNCHANGED <<store, sessionVars>>

CallIds == DOMAIN calls

NextTokens ==
  \/ \E c \in CallIds : CreateTokenStart(c)
  \/ \E c \in CallIds : DeleteTokens(c)
  \/ \E c \in CallIds : InsertToken(c)

SpecTokens == InitTokens /\ [][NextTokens]_vars

(***************************************************************************)
(* Properties of the load session (Spec).                                  *)
(***************************************************************************)
RECURSIVE Nested(_)
\* The nodes with a registered converter that lie in the graph of n, at any
\* depth under arrays, references and objects without a registered converter.
Nested(n) ==
  LET o == Heap[n] IN
    IF o.kind \notin {"obj", "arr"} THEN {}
    ELSE IF o.ref # NoId
      THEN IF Known(MainStore, o.ref) THEN Nested(MainStore[o.ref].obj) ELSE {}
    ELSE IF o.kind = "obj" /\ HasConverter(GetSpeckleType(n)) THEN {n}
    ELSE UNION {Nested(o.kids[j]) : j \in 1..Len(o.kids)}

RECURSIVE Convertibles(_)
\* The nodes with a registered converter that a traversal from n comes to.
Convertibles(n) ==
  LET o == Heap[n] IN
    IF o.kind \notin {"obj", "arr"} THEN {}
    ELSE IF o.ref # NoId
      THEN IF Known(MainStore, o.ref) THEN Convertibles(MainStore[o.ref].obj) ELSE {}
    ELSE IF o.kind = "arr" THEN UNION {Convertibles(o.kids[j]) : j \in 1..Len(o.kids)}
    ELSE IF HasConverter(GetSpeckleType(n)) THEN {n}
    ELSE IF o.hasData THEN UNION {Convertibles(o.kids[j]) : j \in 1..Len(o.kids)}
    ELSE {}

\* The array a (flat, or a sequence of stubs of known chunks) as numbers.
Dechunked(a) ==
  IF a # <<>> /\ HasReferencedId(a[1])
  THEN Nums(Flatten([j \in 1..Len(a) |-> MainStore[a[j].id].data]))
  ELSE Nums(a)

\* A mesh whose chunks the store holds and whose face buffer decodes.
GoodMesh(m) ==
  /\ Heap[m].geom /\ Heap[m].vertices # <<>> /\ Heap[m].faces # <<>>
  /\ \A a \in {Heap[m].vertices, Heap[m].faces} :
       HasReferencedId(a[1]) => \A j \in 1..Len(a) : Known(MainStore, a[j].id)
  /\ DecodeFaces(Dechunked(Heap[m].faces), 0, <<>>).ok

\* A convertible node whose conversion succeeds when it is left alone.
Converts(n) ==
  IF GetSpeckleType(n) = "Mesh" THEN GoodMesh(n)
  ELSE /\ Heap[n].display # 0
       /\ LET d == Heap[Heap[n].display] IN
            IF d.ref = NoId THEN GoodMesh(Heap[n].display)
            ELSE Known(MainStore, d.ref) /\ GoodMesh(MainStore[d.ref].obj)

Displayable(root) == IF root = 0 THEN {} ELSE {n \in Convertibles(root) : Converts(n)}

MetaOf(ws) == {ws[j].meta : j \in 1..Len(ws)}

\* C1: in every run of load(), when setFilteredView is called every
\* convertible node reachable from the first fragment has already been
\* converted and handed to sceneManager.addObject.
C1_MaterializedBeforeComplete ==
  sfvCalls > 0 => Displayable(scen.root) \subseteq MetaOf(sfvSeen)

\* C2: load() emits load-warning only if no convertible object is ever
\* produced: when a conversion of the first fragment's graph succeeds and is
\* added, no load-warning is emitted, whatever the interleaving.
C2_WarningOnlyIfNothingAdded == warnings > 0 => added = <<>>

\* C3: when the graph holds no convertible object (also when the iteration
\* yields no fragment), load() does not raise; it completes having called
\* setFilteredView, emitted exactly one load-warning and never addObject.
C3_EmptyGraphWarnsOnce ==
  (scen.root = 0 \/ Nested(scen.root) = {}) =>
    /\ ld.pc # "rejected"
    /\ added = <<>>
    /\ warnings <= 1
    /\ ld.pc = "done" => (sfvCalls = 1 /\ warnings = 1)

C3_Witness ==
  /\ scen.root = 21 /\ ld.pc = "done" /\ warnings = 1 /\ sfvCalls = 1
  /\ \E t, u \in TaskIds : tasks[t].err = "TypeError" /\ tasks[u].err = "StoreError"

FractionLeq(p, q) == p[1] * q[2] <= q[1] * p[2]

\* C4: one load-progress event per fragment received, the k-th with
\* fraction k / (total + 1), total being the count the first fragment
\* declares; the fractions never decrease and the one of fragment
\* total + 1 is exactly 1.
C4_ProgressPerFragment ==
  /\ stack = <<>> => Len(progress) = ld.fetched
  /\ scen.tcc # <<>> =>
       /\ \A k \in 1..Len(progress) : progress[k] = <<k, scen.tcc[1] + 1>>
       /\ \A k \in 1..(Len(progress) - 1) : FractionLeq(progress[k], progress[k + 1])
       /\ Len(progress) >= scen.tcc[1] + 1 =>
            progress[scen.tcc[1] + 1][1] = progress[scen.tcc[1] + 1][2]

C4_Witness ==
  /\ scen.tcc = <<2>> /\ Len(progress) = 3 /\ progress[3] = <<3, 3>>
  /\ ld.pc = "done"

\* C5: every load-progress event carries a progress in [0,1], for every
\* number of fragments and every declared total, also when more than
\* total + 1 fragments arrive or the first fragment declares no count.
C5_ProgressInUnitInterval ==
  \A k \in 1..Len(progress) :
    /\ progress[k] # <<>>
    /\ progress[k][2] > 0
    /\ 0 <= progress[k][1] /\ progress[k][1] <= progress[k][2]

\* Every invocation of the session has returned or thrown and nothing is queued.
Quiescent ==
  /\ tasks # <<>> /\ stack = <<>> /\ mq = <<>>
  /\ \A t \in TaskIds : tasks[t].st # "run"

InGraph(root) == IF root = 0 THEN {} ELSE Nested(root)

Travs == {t \in TaskIds : tasks[t].kind = "trav"}

Callbacks == {t \in TaskIds : tasks[t].kind = "cb"}

\* C11: for a node that is neither an array nor a structured object (number,
\* string, boolean, undefined, null) traverseAndConvert stops at once: no
\* store access, no converter, no onConverted call, and it does not raise.
C11_PrimitivesStop ==
  \A t \in Travs :
    (Heap[tasks[t].node].kind \in {"prim", "undef", "null"} /\ tasks[t].pc # "start") =>
      /\ tasks[t].st = "ok" /\ tasks[t].err = ""
      /\ tasks[t].call = NoCall /\ tasks[t].target = 0
      /\ \A u \in Callbacks : tasks[u].node # tasks[t].node

\* C12: onConverted is invoked for a node only when its converter yielded a
\* result; a node whose converter yields none, its required inputs missing,
\* gets no onConverted call.
C12_CallbackOnlyOnResult ==
  /\ \A u \in Callbacks : tasks[u].node \in stripped /\ Converts(tasks[u].node)
  /\ \A t \in Travs :
       (tasks[t].st = "err" /\ ~Converts(tasks[t].node)) =>
         \A u \in Callbacks : tasks[u].node # tasks[t].node

C12_Witness ==
  /\ scen.root = 20 /\ Quiescent
  /\ \E t, u \in Travs :
       /\ tasks[t].node = 25 /\ tasks[t].st = "err"
       /\ tasks[u].node = 26 /\ tasks[u].st = "err"
  /\ Callbacks = {}

\* C13: every convertible object nested at any depth under objects without a
\* registered converter is converted and handed to onConverted exactly once,
\* and such a container never causes an onConverted call itself (stated of
\* the session once nothing of it is left to run).
C13_NestedDeliveredOnce ==
  Quiescent =>
    /\ \A m \in InGraph(scen.root) :
         Converts(m) => Cardinality({u \in Callbacks : tasks[u].node = m}) = 1
    /\ \A u \in Callbacks : HasConverter(GetSpeckleType(tasks[u].node))

\* C14: a node with a registered converter is converted and its fields are
\* not traversed: what is nested inside it gets no traversal of its own, so
\* no onConverted call and no store lookup.
C14_NoDescentIntoConverted ==
  /\ \A t \in Travs :
       (Heap[tasks[t].node].kind = "obj" /\ HasConverter(GetSpeckleType(tasks[t].node)))
         => tasks[t].i = 0
  /\ \A u \in Callbacks : tasks[u].node \in InGraph(scen.root)
  /\ \A n \in InGraph(scen.root) :
       Cardinality({u \in Callbacks : tasks[u].node = n})
         <= Cardinality({t \in Travs : tasks[t].node = n})

C14_Witness ==
  /\ scen.root = 15 /\ Quiescent
  /\ MetaOf(added) = {15}
  /\ \A t \in Travs : tasks[t].node # 3

\* C15: when the conversion of one node fails (face flag not supported, store
\* lookup failure), the branches started next to it by the same array or
\* container still run to their end and deliver their results.
C15_SiblingsUnaffected ==
  (Quiescent /\ \E t \in Travs : tasks[t].st = "err") =>
    Displayable(scen.root) \subseteq MetaOf(added)

C15_Witness ==
  /\ scen.root = 29 /\ Quiescent
  /\ \E t, u \in Travs :
       tasks[t].err = "TypeError" /\ tasks[u].err = "MeshTypeNotSupported"
  /\ MetaOf(added) = {3}

RECURSIVE Triangles(_, _)
\* The number of triangles a well-formed face buffer describes from position k.
Triangles(faces, k) ==
  IF ~(k < Len(faces)) THEN 0
  ELSE IF faces[k + 1] = 1 THEN 2 + Triangles(faces, k + 5)
  ELSE 1 + Triangles(faces, k + 4)

\* C18: for a graph whose only convertible node is one Mesh (unit factor 1),
\* exactly one wrapper is delivered; its index buffer holds two triangles per
\* quad and its position attribute as many vertices as the vertex buffer.
C18_SingleMeshDelivered ==
  (Quiescent /\ \E m \in NodeIds :
      InGraph(scen.root) = {m} /\ GetSpeckleType(m) = "Mesh" /\ GoodMesh(m)) =>
    /\ Len(added) = 1
    /\ LET m == added[1].meta IN
         /\ InGraph(scen.root) = {m}
         /\ Len(added[1].index) = 3 * Triangles(Dechunked(Heap[m].faces), 0)
         /\ Len(added[1].position) = Len(Dechunked(Heap[m].vertices))

\* C27: unload() has the scene manager remove the objects tagged with the
\* session's URL and cancels nothing: what is in flight still completes and
\* is added, so the scene can hold an object of the session after unload()
\* has returned.
C27_UnloadCancelsNothing ==
  /\ scene.objs = SubSeq(added, scene.mark + 1, Len(added))
  /\ Quiescent =>
       /\ \A u \in Callbacks : tasks[u].st = "ok"
       /\ Len(added) = Cardinality(Callbacks)

C27_Witness ==
  /\ scene.unloads = 1 /\ Quiescent /\ ld.pc = "done"
  /\ scene.mark = 0 /\ Len(scene.objs) = 1 /\ scene.objs[1].importedUrl = ObjectUrl

\* C28: a load() that completes has called setFilteredView exactly once,
\* after the iteration was exhausted and after the last load-progress event;
\* when the conversion of the first fragment fails, load() fails and
\* setFilteredView is never called.
C28_SetFilteredViewOnce ==
  /\ sfvCalls <= 1
  /\ sfvCalls = 1 =>
       /\ ld.pc \in {"await_sfv", "sfv_ready", "done"}
       /\ ld.fetched = scen.n /\ Len(progress) = scen.n
  /\ ld.pc = "done" => sfvCalls = 1
  /\ (ld.fop # 0 /\ tasks[ld.fop].st = "err") =>
       sfvCalls = 0 /\ ld.pc \notin {"await_sfv", "sfv_ready", "done"}

C28_Witness ==
  /\ scen.root = 30 /\ scen.n = 2 /\ ld.pc = "rejected"
  /\ tasks[ld.fop].err = "MeshTypeNotSupported"
  /\ sfvCalls = 0 /\ Len(progress) = 2

RECURSIVE Occurrences(_, _)
\* How many times a traversal from n comes to the convertible node m.
Occurrences(n, m) ==
  LET o == Heap[n]
      Sum(kids) == LET RECURSIVE S(_)
                       S(j) == IF j = 0 THEN 0 ELSE Occurrences(kids[j], m) + S(j - 1)
                   IN  S(Len(kids))
  IN  IF o.kind \notin {"obj", "arr"} THEN 0
      ELSE IF o.ref # NoId
        THEN IF Known(MainStore, o.ref) THEN Occurrences(MainStore[o.ref].obj, m) ELSE 0
      ELSE IF o.kind = "arr" THEN Sum(o.kids)
      ELSE IF HasConverter(GetSpeckleType(n)) THEN (IF n = m THEN 1 ELSE 0)
      ELSE IF o.hasData THEN Sum(o.kids)
      ELSE 0

\* C29: a Mesh or Brep referenced from two places through the same
\* referencedId is converted and handed to onConverted once per reference,
\* with equal geometry (stated of the session once nothing is left to run).
C29_SharedConvertedTwice ==
  (Quiescent /\ scen.root # 0) =>
    /\ \A m \in Displayable(scen.root) :
         Cardinality({u \in Callbacks : tasks[u].node = m}) = Occurrences(scen.root, m)
    /\ \A j, k \in 1..Len(added) :
         added[j].meta = added[k].meta =>
           added[j].index = added[k].index /\ added[j].position = added[k].position

\* C30: a traversal of an array or of an object without a converter never
\* waits for the traversals it starts: it goes from its first element or field
\* to its return without yielding, so its promise can resolve while
\* conversions below it are in flight and deliveries can come in any order.
C30_ParentDoesNotWait ==
  \A t \in Travs :
    tasks[t].pc \in {"array", "type"} =>
      /\ ~tasks[t].parked
      /\ \E j \in 1..Len(stack) : stack[j] = t
      /\ \A j \in 1..Len(mq) : mq[j] # t

C30_Witness ==
  /\ scen.root = 32 /\ ld.fop # 0
  /\ tasks[ld.fop].pc = "end" /\ tasks[ld.fop].st = "ok"
  /\ MetaOf(added) = {3}
  /\ \E t \in Travs : tasks[t].node = 10 /\ tasks[t].st = "run" /\ tasks[t].parked

\* C31: load() starts traverseAndConvert once, on the first fragment it
\* receives and before it asks for the second; later fragments are counted
\* and not traversed; load() awaits the first fragment's conversion only
\* once the iteration is exhausted.
C31_TraverseStartedOnce ==
  /\ Cardinality({t \in Travs : tasks[t].top}) = (IF ld.fetched >= 1 THEN 1 ELSE 0)
  /\ ld.fetched >= 1 =>
       /\ ld.fop # 0
       /\ tasks[ld.fop].top /\ tasks[ld.fop].kind = "trav"
       /\ \A t \in Travs : tasks[t].top => t = ld.fop
  /\ ld.fetched = 0 => ld.fop = 0
  /\ ld.pc = "await_first" => ld.fetched = scen.n
  /\ ld.pc \in {"iter_wait", "iter_ready"} => ld.current = ld.fetched

C31_Witness ==
  /\ ld.fetched >= 2 /\ ld.current = ld.fetched /\ ld.pc = "iter_wait"
  /\ tasks[ld.fop].st = "run" /\ tasks[ld.fop].pc # "start"

\* C32: every object handed to addObject carries __importedUrl equal to the
\* session's URL when it is handed over, so removeImportedObject( objectUrl )
\* leaves none of the objects added before it in the scene.
C32_AddedAreTagged ==
  /\ \A j \in 1..Len(added) : added[j].importedUrl = ObjectUrl
  /\ \A j \in 1..Len(scene.objs) : scene.objs[j].importedUrl = ObjectUrl
  /\ (scene.unloads >= 1 /\ Len(added) = scene.mark) => scene.objs = <<>>

C32_Witness ==
  /\ scene.unloads = 1 /\ scene.mark >= 1 /\ Len(added) = scene.mark
  /\ scene.objs = <<>> /\ added[1].importedUrl = ObjectUrl

\* What one call of asyncPause by invocation t does in a step.
PauseStep(t) ==
  /\ t \in DOMAIN tasks
  /\ tasks[t].kind = "cb" /\ tasks[t].pc = "start" /\ tasks'[t].pc # "start"

\* C33: asyncPause suspends on a zero-delay timer exactly when at least
\* PauseBudget ms have passed since the recorded yield, and records the new
\* yield time before it suspends; otherwise it does not suspend and leaves
\* the recorded time alone.  The recorded time changes in no other step, so
\* two suspensions are at least PauseBudget ms apart.
C33_AsyncPause ==
  [][/\ \A t \in DOMAIN tasks :
          PauseStep(t) =>
            IF now - lastAsyncPause >= PauseBudget
            THEN /\ tasks'[t].pc = "timer" /\ tasks'[t].parked
                 /\ lastAsyncPause' = now
                 /\ \A j \in 1..Len(mq') : mq'[j] # t
            ELSE /\ tasks'[t].pc = "add" /\ ~tasks'[t].parked
                 /\ lastAsyncPause' = lastAsyncPause
     /\ lastAsyncPause' # lastAsyncPause =>
          /\ lastAsyncPause' - lastAsyncPause >= PauseBudget
          /\ \E t \in DOMAIN tasks : PauseStep(t) /\ tasks'[t].pc = "timer"]_vars

\* A callback started later has added its object while an earlier one is
\* still suspended on its timer.
C33_Witness ==
  \E t, u \in Callbacks :
    /\ t < u /\ tasks[t].pc = "timer" /\ tasks[t].parked
    /\ tasks[u].st = "ok" /\ Len(added) >= 1
    /\ lastAsyncPause >= PauseBudget

\* C34: traversal, conversion and the load callback leave every object that
\* came from the store client with the fields it had.
C34_StoreObjectsUntouched ==
  \A n \in NodeIds : n \notin stripped

LoadSettled == ld.pc \in {"done", "rejected"}

\* C36: with a finite iteration and a store that answers every lookup,
\* load() eventually resolves or rejects; and the face loop runs its body at
\* most once per element of the buffer it decodes.
C36_LoadSettles ==
  /\ <>LoadSettled
  /\ [](\A t \in Travs :
          tasks[t].pc = "mesh_faces" =>
            FaceLoopSteps(Nums(tasks[t].call.acc), 0) <= Len(tasks[t].call.acc))

C36_Witness ==
  /\ ld.pc = "done" /\ scen.root = 18 /\ scen.n = MaxFrags
  /\ MetaOf(added) = {4}

(***************************************************************************)
(* Properties of dechunk and resolveReference (SpecResolver).              *)
(***************************************************************************)
DechunkCalls == {r \in {calls[c] : c \in DOMAIN calls} : r.call.fn = "dechunk"}

ResolveCalls == {r \in {calls[c] : c \in DOMAIN calls} : r.call.fn = "resolve"}

Settled(c) == c.st \in {"ret", "raise"}

AllKnown(arr) == \A j \in 1..Len(arr) : Known(store, arr[j].id)

\* The payloads of the first n stubs of arr, concatenated in array order.
Payloads(arr, n) == Flatten([j \in 1..n |-> store[arr[j].id].data])

\* C6: for every array a, the empty one included, and every split of a into
\* consecutive fragments stored as reference stubs, dechunk of the stub
\* sequence returns a: same length, same elements, same order.
C6_RoundTrip ==
  \A r \in DechunkCalls :
    (r.chunked /\ AllKnown(r.call.arr) /\ Settled(r.call))
      => (r.call.st = "ret" /\ r.call.acc = r.orig)

\* C7: dechunk returns its argument unchanged, with no store lookup and
\* without raising, when the array is empty or its first element has no
\* referencedId.
C7_PassThrough ==
  \A r \in DechunkCalls :
    ((Len(r.call.arr) = 0 \/ ~HasReferencedId(r.call.arr[1])) /\ r.call.st # "idle")
      => (r.call.st = "ret" /\ r.call.acc = r.call.arr /\ r.call.reqs = <<>>)

\* C8: within one dechunk call the lookups are issued in array order and one
\* at a time (lookup i+1 only after lookup i returned), and the payloads are
\* appended in that order, whatever the other task does in between.
C8_SequentialOrdered ==
  \A r \in DechunkCalls :
    LET c == r.call IN
      /\ c.out \in {0, 1}
      /\ (c.out = 1) <=> (c.st = "wait")
      /\ Len(c.reqs) <= Len(c.arr)
      /\ \A j \in 1..Len(c.reqs) : c.reqs[j] = c.arr[j].id
      /\ (c.st = "wait" /\ AllKnown(c.arr)) => c.acc = Payloads(c.arr, Len(c.reqs) - 1)
      /\ (c.st = "ret" /\ c.reqs # <<>>) => c.acc = Payloads(c.arr, Len(c.arr))

C8_Witness ==
  /\ calls[1].call.st = "ret" /\ Len(calls[1].call.reqs) >= 2
  /\ calls[1].call.acc # <<>>
  /\ calls[1].call.acc[1] # calls[1].call.acc[Len(calls[1].call.acc)]
  /\ calls[2].call.st = "wait"

C10_LookupFailurePropagates ==
  \A c \in DOMAIN calls :
    LET k == calls[c].call IN
      ((\E j \in 1..Len(k.reqs) : ~Known(store, k.reqs[j])) /\ k.st # "wait")
        => (k.st = "raise" /\ k.err = "StoreError")

C10_Witness ==
  /\ calls[1].call.st = "raise" /\ calls[1].call.err = "StoreError"
  /\ Len(calls[1].call.reqs) = 2 /\ calls[1].call.acc # <<>>
  /\ calls[2].call.fn = "resolve" /\ calls[2].call.st = "raise"
  /\ calls[2].call.err = "StoreError"

(***************************************************************************)
(* Properties of the converters (SpecConverters).                          *)
(***************************************************************************)
MeshDone == {c \in DOMAIN calls : calls[c].fn = "mesh" /\ calls[c].st # "idle"}

BrepDone == {c \in DOMAIN calls : calls[c].fn = "brep" /\ calls[c].st # "idle"}

HasGeometry(obj) == {"vertices", "faces"} \subseteq obj.fields

\* The buffer lacks indices of its last face.
Truncated(obj) == obj.faces # Vals(Encode(obj.list))

WellFormed(list) == \A j \in 1..Len(list) : list[j].flag \in {0, 1}

\* The triangles of one face: (v0,v1,v2), and for a quad (v0,v2,v3) as well.
FaceTriangles(f) ==
  IF f.flag = 0 THEN <<f.v[1], f.v[2], f.v[3]>>
  ELSE <<f.v[1], f.v[2], f.v[3], f.v[1], f.v[3], f.v[4]>>

Quads(list) == Cardinality({j \in 1..Len(list) : list[j].flag = 1})

\* C16: for a well-formed face buffer the index sequence is, face by face in
\* order, (v0,v1,v2) of a triangle and (v0,v1,v2),(v0,v2,v3) of a quad; its
\* length is 3 * (triangles + 2 * quads).
C16_IndexSequence ==
  \A c \in MeshDone :
    LET obj == calls[c].obj IN
      (HasGeometry(obj) /\ WellFormed(obj.list) /\ ~Truncated(obj)) =>
        /\ calls[c].st = "ret"
        /\ calls[c].wrapper[1].index =
             Flatten([j \in 1..Len(obj.list) |-> FaceTriangles(obj.list[j])])
        /\ Len(calls[c].wrapper[1].index) =
             3 * ((Len(obj.list) - Quads(obj.list)) + 2 * Quads(obj.list))

\* C17: a flag other than 0 or 1 at a face position, at the start of the
\* buffer or after any number of valid faces, makes the Mesh converter throw
\* its decode error; no wrapper is produced.
C17_BadFlagRaises ==
  \A c \in MeshDone :
    LET obj == calls[c].obj IN
      (HasGeometry(obj) /\ ~WellFormed(obj.list)) =>
        /\ calls[c].st = "raise" /\ calls[c].err = "MeshTypeNotSupported"
        /\ calls[c].wrapper = <<>>

C17_Witness ==
  \E c \in MeshDone :
    /\ HasGeometry(calls[c].obj)
    /\ calls[c].obj.list = <<Face(0, <<0, 1, 2>>), Face(1, <<0, 1, 2, 3>>),
                             Face(2, <<0, 1, 2>>)>>
    /\ calls[c].st = "raise" /\ calls[c].wrapper = <<>>

\* C19: the metadata of a wrapper the Mesh converter returns has no vertices
\* field and no faces field.
C19_MeshMetaStripped ==
  \A c \in MeshDone :
    calls[c].st = "ret" => {"vertices", "faces"} \cap calls[c].wrapper[1].meta = {}

C19_Witness ==
  \E c \in MeshDone :
    /\ calls[c].st = "ret" /\ calls[c].obj.list # <<>>
    /\ calls[c].wrapper[1].meta = MeshBase \cup {"colors"}

\* Field names without their letter case.
LowerCase(name) ==
  CASE name \in {"displayMesh"} -> "displaymesh"
    [] name \in {"displayValue"} -> "displayvalue"
    [] name \in {"Edges", "edges"} -> "edges"
    [] name \in {"Faces", "faces"} -> "faces"
    [] name \in {"Loops"} -> "loops"
    [] name \in {"Trims"} -> "trims"
    [] name \in {"Curve2D"} -> "curve2d"
    [] name \in {"Curve3D"} -> "curve3d"
    [] name \in {"Surfaces"} -> "surfaces"
    [] name \in {"Vertices", "vertices"} -> "vertices"
    [] OTHER -> name

\* C20 as stated: the metadata of a wrapper the Brep converter returns
\* retains none of the heavy fields (display mesh / value, edges, faces,
\* loops, trims, curves, surfaces, vertices), in whatever letter case the
\* source object carries them.
C20_BrepMetaStrippedAnyCase ==
  \A c \in BrepDone :
    calls[c].st = "ret" =>
      \A f \in calls[c].wrapper[1].meta : LowerCase(f) \notin {LowerCase(h) : h \in BrepHeavy}

\* C20 amended: the metadata retains none of the fields displayMesh,
\* displayValue, Edges, Faces, Loops, Trims, Curve2D, Curve3D, Surfaces,
\* Vertices, spelled so; every other field of the source object is kept.
C20_BrepMetaStripped ==
  \A c \in BrepDone :
    calls[c].st = "ret" =>
      /\ calls[c].wrapper[1].meta \cap BrepHeavy = {}
      /\ calls[c].wrapper[1].meta = calls[c].obj.fields \ BrepHeavy

C20_Witness ==
  \E c \in BrepDone :
    /\ calls[c].st = "ret"
    /\ BrepHeavy \ {"displayMesh"} \subseteq calls[c].obj.fields
    /\ calls[c].wrapper[1].meta = {"id", "speckle_type", "edges", "vertices"}

\* C21: the Brep converter on an object with neither displayValue nor
\* displayMesh yields nothing: it returns, without a wrapper, and does not
\* raise.
C21_BrepNoDisplayYieldsNothing ==
  \A c \in BrepDone :
    ({"displayValue", "displayMesh"} \cap calls[c].obj.fields = {}) =>
      calls[c].st = "ret" /\ calls[c].wrapper = <<>>

TypeDone == {c \in DOMAIN calls : calls[c].fn = "type" /\ calls[c].st # "idle"}

\* What follows the last '.' of a string (the whole string without one).
LastSegment(str) ==
  LET dots == {j \in 1..Len(str) : str[j] = "."}
  IN  IF dots = {} THEN str
      ELSE SubSeq(str, (CHOOSE j \in dots : \A k \in dots : k <= j) + 1, Len(str))

\* C22: the type tag of a structured object is the last dot-separated segment
\* of its speckle_type string, the payload's when the object has a payload,
\* and 'Base' when that string is absent (or empty).
C22_TypeTag ==
  \A c \in TypeDone :
    LET obj == calls[c].obj
        field == IF obj.hasData THEN obj.dataType ELSE obj.ownType
    IN  calls[c].tag = IF field = <<>> \/ field[1] = <<>> THEN BaseTag
                       ELSE LastSegment(field[1])

C22_Witness ==
  \E c \in TypeDone :
    /\ calls[c].obj.hasData
    /\ calls[c].obj.dataType = << <<"B", ".", "M">> >>
    /\ calls[c].obj.ownType = << <<"B">> >>
    /\ calls[c].tag = <<"M">>

\* C23: with a conversion factor of exactly 1 the positions are the dechunked
\* vertex values, element for element, and nothing is multiplied; with any
\* other factor every position is the vertex value times the factor.
C23_PositionScaling ==
  \A c \in MeshDone :
    calls[c].st = "ret" =>
      LET obj == calls[c].obj
          pos == calls[c].wrapper[1].position
      IN  /\ Len(pos.values) = Len(obj.vertices)
          /\ obj.factor = 1 => (pos.values = Nums(obj.vertices) /\ ~pos.mapped)
          /\ obj.factor # 1 =>
               \A j \in 1..Len(obj.vertices) : pos.values[j] = obj.vertices[j].v * obj.factor

C23_Witness ==
  \E c \in MeshDone :
    /\ calls[c].st = "ret" /\ calls[c].obj.factor = 2
    /\ calls[c].wrapper[1].position.values = <<0, 0, 0, 2, 0, 0, 2, 2, 0, 0, 2, 0>>

\* C35: every value of the index sequence of a wrapper the Mesh converter
\* returns was read inside the face buffer (a read past its end gives -1
\* here, undefined in the code), so a buffer whose last face is truncated
\* yields no wrapper with missing indices.
C35_NoReadPastBuffer ==
  \A c \in MeshDone :
    calls[c].st = "ret" =>
      \A j \in 1..Len(calls[c].wrapper[1].index) : calls[c].wrapper[1].index[j] # -1

(***************************************************************************)
(* Properties of the constructor (SpecConstructor).                        *)
(***************************************************************************)
CtorDone == {c \in DOMAIN calls : calls[c].fn = "ctor" /\ calls[c].st # "idle"}

HasSegment(toks, word) == \E j \in 1..Len(toks) : toks[j] = word

\* C24: a URL whose path lacks the 'streams' or the 'objects' segment, or
\* has fewer components than expected, makes the constructor throw the
\* URL-format error, before the ObjectLoader is created.
C24_MalformedUrlThrows ==
  \A c \in CtorDone :
    LET toks == calls[c].url.toks IN
      (~HasSegment(toks, Streams) \/ ~HasSegment(toks, Objects) \/ Len(toks) < 4) =>
        /\ calls[c].st = "raise" /\ calls[c].err = "Unexpected object url format."
        /\ ~calls[c].loader

\* C25: for every URL the constructor accepts, serverUrl is the origin,
\* streamId the path segment that follows 'streams' and objectId the one
\* that follows 'objects'.
C25_UrlParts ==
  \A c \in CtorDone :
    calls[c].st = "ret" =>
      LET toks == calls[c].url.toks IN
        /\ calls[c].serverUrl = calls[c].url.origin
        /\ \E j \in 1..(Len(toks) - 1) :
             toks[j] = Streams /\ calls[c].streamId = toks[j + 1]
        /\ \E j \in 1..(Len(toks) - 1) :
             toks[j] = Objects /\ calls[c].objectId = toks[j + 1]

\* C26: the token is the argument when one is given, otherwise the stored
\* one, otherwise none; without a token, or when reading the storage throws,
\* construction still succeeds and the ObjectLoader is there.
C26_TokenPrecedence ==
  \A c \in CtorDone :
    LET r == calls[c] IN
      /\ r.token = IF r.authToken # <<>> THEN r.authToken
                   ELSE IF ~r.storage.throws /\ r.storage.item # <<>> THEN r.storage.item
                   ELSE <<>>
      /\ r.warned = (r.token = <<>>)
      /\ (Len(r.url.toks) = 4 /\ r.url.toks[1] = Streams /\ r.url.toks[3] = Objects)
           => (r.st = "ret" /\ r.loader)

C26_Witness ==
  \E c \in CtorDone :
    /\ calls[c].authToken = <<>> /\ calls[c].storage.throws
    /\ calls[c].st = "ret" /\ calls[c].loader /\ calls[c].token = <<>>
    /\ calls[c].streamId = <<"a">> /\ calls[c].objectId = <<"b">>

(***************************************************************************)
(* Properties of comment creation (SpecComment).                           *)
(***************************************************************************)
\* Calls that have ended after the resource check or a link insertion failed.
RolledBack ==
  {c \in DOMAIN calls :
     calls[c].fn = "createComment" /\ calls[c].cause # "" /\ calls[c].st \in {"ret", "raise"}}

\* C37 as stated: when the resource check or a link insertion fails after
\* the comment row was inserted, the row is deleted again, the error is
\* rethrown, and neither the viewed marker nor the Created event is produced.
C37_RollbackAlwaysDeletes ==
  \A c \in RolledBack :
    /\ ~calls[c].row
    /\ calls[c].st = "raise" /\ calls[c].err = calls[c].cause
    /\ ~calls[c].viewed /\ calls[c].events = 0

\* C37, amended: after such a failure deleteComment is called for the
\* inserted comment; when it succeeds the row is gone and the original error
\* is rethrown, when it fails its own error is thrown and the row stays; in
\* both cases the call fails with no viewed marker and no Created event.
C37_RollbackOnFailure ==
  /\ \A c \in RolledBack :
       /\ calls[c].st = "raise"
       /\ ~calls[c].viewed /\ calls[c].events = 0
       /\ calls[c].deleted \in {"yes", "failed"}
       /\ calls[c].deleted = "yes" => (~calls[c].row /\ calls[c].err = calls[c].cause)
       /\ calls[c].deleted = "failed" => (calls[c].row /\ calls[c].err = "DeleteFailed")
  /\ \A c \in DOMAIN calls :
       (calls[c].fn = "createComment" /\ calls[c].cause # "" /\ calls[c].st = "run") =>
         (calls[c].pc = "rollback" /\ calls[c].row /\ ~calls[c].viewed /\ calls[c].events = 0)

C37_Witness ==
  \E c \in RolledBack :
    /\ calls[c].cause = "LinkInsertFailed" /\ calls[c].links = <<"stream">>
    /\ calls[c].deleted = "yes" /\ ~calls[c].row /\ calls[c].err = "LinkInsertFailed"

(***************************************************************************)
(* Properties of password-reset token creation (SpecTokens).               *)
(***************************************************************************)
TokenCalls == {c \in DOMAIN calls : calls[c].fn = "createToken"}

\* C38: once createToken calls for an e-mail have all returned, however
\* their delete and insert steps interleaved, the table holds exactly one
\* token row for that e-mail.
C38_OneTokenPerEmail ==
  \A e \in Emails \ {""} :
    (/\ \E c \in TokenCalls : calls[c].email = e
     /\ \A c \in TokenCalls : calls[c].email = e => calls[c].st = "ret") =>
      Cardinality({r \in tokens : r.email = e}) = 1

====
